---- MODULE Spec2Model ----
(***************************************************************************)
(* State-machine model of timesheet_splitter_app.py: the reconciliation    *)
(* engine prepare_employee_data, the aggregator build_summary_structures   *)
(* and the part of run_main_page that drives them.                         *)
(*                                                                         *)
(* Text is modelled as a sequence of one-character strings so that         *)
(* str.strip, str.lower, str.startswith and sorted() are computed and not  *)
(* assumed.  A table cell is a record [k, s, n]: k = "nan" (missing cell), *)
(* k = "str" (text s) or k = "num" (number n).  Hours are integers.        *)
(***************************************************************************)
EXTENDS Integers, Sequences, FiniteSets, TLC

\* ------------------------------------------------------------------ bounds
\* Largest number of rows of a generated raw table.
MaxRows == 2

\* ------------------------------------------------------- program constants
FULL_EMP_ID_COL == "EMP ID"
FULL_EMP_NAME_COL == "User Name"
FULL_DATE_COL == "Date"
FULL_HOURS_COL == "Regular Time (Hours)"
FULL_PROJECT_TYPE_COL == "Project Type"
DB_EMP_ID_COL == "Emp ID"
DB_EMP_NAME_COL == "Employee Name"
DB_VENDOR_COL == "Organization"
DEFAULT_VENDOR_NAME == <<"U","n","A","s","s","i","g","n","e","d"," ","V","e","n","d","o","r">>

\* -------------------------------------------------------------------- text
\* The characters of the model in code-point order (space < digits < upper
\* case < lower case), which is the order Python compares strings in.
Alphabet == <<" ", "0", "1", "2", "3", "4", "5", "6", "7", "8", "9",
              "A", "B", "C", "D", "E", "F", "G", "H", "I", "J", "K", "L", "M",
              "N", "O", "P", "Q", "R", "S", "T", "U", "V", "W", "X", "Y", "Z",
              "a", "b", "c", "d", "e", "f", "g", "h", "i", "j", "k", "l", "m",
              "n", "o", "p", "q", "r", "s", "t", "u", "v", "w", "x", "y", "z">>

CharCode(c) == CHOOSE i \in 1..Len(Alphabet) : Alphabet[i] = c

IsUpperChar(c) == CharCode(c) >= CharCode("A") /\ CharCode(c) <= CharCode("Z")

LowerChar(c) == IF IsUpperChar(c) THEN Alphabet[CharCode(c) + 26] ELSE c

\* str.lower()
Lower(s) == [i \in 1..Len(s) |-> LowerChar(s[i])]

IsSpace(c) == c = " "

RECURSIVE LStrip(_)
LStrip(s) == IF s # <<>> /\ IsSpace(Head(s)) THEN LStrip(Tail(s)) ELSE s

RECURSIVE RStrip(_)
RStrip(s) ==
    IF s # <<>> /\ IsSpace(s[Len(s)]) THEN RStrip(SubSeq(s, 1, Len(s) - 1)) ELSE s

\* str.strip()
Strip(s) == RStrip(LStrip(s))

\* str.startswith(p) for a one-character p
StartsWith(s, c) == s # <<>> /\ Head(s) = c

\* a < b in Python's string order
RECURSIVE StrLess(_, _)
StrLess(a, b) ==
    IF b = <<>> THEN FALSE
    ELSE IF a = <<>> THEN TRUE
    ELSE IF Head(a) = Head(b) THEN StrLess(Tail(a), Tail(b))
    ELSE CharCode(Head(a)) < CharCode(Head(b))

\* sorted(S) for a set of strings
RECURSIVE Sorted(_)
Sorted(S) ==
    IF S = {} THEN <<>>
    ELSE LET m == CHOOSE x \in S : \A y \in S \ {x} : StrLess(x, y)
         IN  <<m>> \o Sorted(S \ {m})

\* ------------------------------------------------------------------- cells
NaN == [k |-> "nan", s |-> <<>>, n |-> 0]
Str(t) == [k |-> "str", s |-> t, n |-> 0]
Num(v) == [k |-> "num", s |-> <<>>, n |-> v]

\* A date cell: the day d of a calendar that numbers its days.
Date(d) == [k |-> "date", s |-> <<>>, n |-> d]

\* pd.isna / Series.dropna
IsNa(c) == c.k = "nan"

\* str(x) of an id cell: text is itself, a missing cell prints as "nan".
PyStr(c) == IF c.k = "str" THEN c.s ELSE <<"n", "a", "n">>

RECURSIVE SumSeq(_)
SumSeq(q) == IF q = <<>> THEN 0 ELSE Head(q) + SumSeq(Tail(q))

SeqToSet(q) == {q[i] : i \in DOMAIN q}

\* ------------------------------------------------------------------ tables
\* A table is [columns: sequence of column names, rows: sequence of rows],
\* a row being a function from the table's column names to cells.
ColSet(df) == SeqToSet(df.columns)

HasCol(df, c) == c \in ColSet(df)

ColumnOf(df, c) == [i \in 1..Len(df.rows) |-> df.rows[i][c]]

\* select_dtypes(include=["object"]): a column read from a sheet has dtype
\* object exactly when it holds text; numbers and missing cells alone give a
\* float column.
IsObjectDtype(col) == \E i \in DOMAIN col : col[i].k = "str"

MaxOf(S) == CHOOSE x \in S : \A y \in S : y <= x

MinDay(S) == CHOOSE x \in S : \A y \in S : x <= y

\* A fill that reaches one row up and no further.
FfillLimitOne(col) ==
    [i \in DOMAIN col |->
        IF ~IsNa(col[i]) THEN col[i]
        ELSE IF i > 1 /\ ~IsNa(col[i - 1]) THEN col[i - 1]
        ELSE NaN]

\* Series.ffill(): a missing cell takes the nearest preceding non-missing one.
Ffill(col) ==
    [i \in DOMAIN col |->
        IF ~IsNa(col[i]) THEN col[i]
        ELSE LET before == {j \in 1..(i - 1) : ~IsNa(col[j])}
             IN  IF before = {} THEN NaN ELSE col[MaxOf(before)]]

IsDigit(c) == CharCode(c) >= CharCode("0") /\ CharCode(c) <= CharCode("9")

RECURSIVE ParseDigits(_, _)
ParseDigits(s, acc) ==
    IF s = <<>> THEN acc
    ELSE ParseDigits(Tail(s), 10 * acc + (CharCode(Head(s)) - CharCode("0")))

\* A coercion that only parses text and gives up on cells already numeric.
ToNumericTextOnly(c) ==
    IF c.k = "str" /\ c.s # <<>> /\ \A i \in DOMAIN c.s : IsDigit(c.s[i])
    THEN Num(ParseDigits(c.s, 0))
    ELSE NaN

\* pd.to_numeric(errors="coerce") of one cell
ToNumeric(c) ==
    IF c.k = "num" THEN c
    ELSE IF c.k = "str" /\ c.s # <<>> /\ \A i \in DOMAIN c.s : IsDigit(c.s[i])
    THEN Num(ParseDigits(c.s, 0))
    ELSE NaN

\* pd.to_datetime(errors="coerce") of one cell: a date is kept; a missing cell
\* and text that spells no date (the only text the inputs put in a date
\* column) become NaT.
ToDatetime(c) == IF c.k = "date" THEN c ELSE NaN

\* .fillna(0.0) of one cell
FillNa0(c) == IF IsNa(c) THEN Num(0) ELSE c

\* A fill that stops at employee boundaries: the id column is filled over the
\* whole table, every other object column only from rows of the same id.
FilledColumnWithinIds(df, c) ==
    LET col == ColumnOf(df, c)
    IN  IF ~IsObjectDtype(col) THEN col
        ELSE IF c = FULL_EMP_ID_COL \/ ~HasCol(df, FULL_EMP_ID_COL) THEN Ffill(col)
        ELSE LET ids == Ffill(ColumnOf(df, FULL_EMP_ID_COL))
             IN  [i \in DOMAIN col |->
                    IF ~IsNa(col[i]) THEN col[i]
                    ELSE LET before == {j \in 1..(i - 1) :
                                           ~IsNa(col[j]) /\ ids[j] = ids[i]}
                         IN  IF before = {} THEN NaN ELSE col[MaxOf(before)]]

\* Lines 436-437: the object columns, forward filled; other columns as read.
FilledColumn(df, c) ==
    IF IsObjectDtype(ColumnOf(df, c)) THEN Ffill(ColumnOf(df, c)) ELSE ColumnOf(df, c)

\* Lines 441-444: the hours column after coercion, synthesized when absent.
CoercedHours(df) ==
    IF HasCol(df, FULL_HOURS_COL)
    THEN [i \in 1..Len(df.rows) |->
            FillNa0(ToNumeric(FilledColumn(df, FULL_HOURS_COL)[i]))]
    ELSE [i \in 1..Len(df.rows) |-> Num(0)]

\* Lines 436-444: what prepare_employee_data leaves in full_df (it changes
\* the caller's table in place).
NormalizeFull(df) ==
    LET cols == IF HasCol(df, FULL_HOURS_COL) THEN df.columns
                ELSE Append(df.columns, FULL_HOURS_COL)
    IN  [columns |-> cols,
         rows |-> [i \in 1..Len(df.rows) |->
                     [c \in SeqToSet(cols) |->
                         IF c = FULL_HOURS_COL THEN CoercedHours(df)[i]
                         ELSE IF c = FULL_DATE_COL
                         THEN ToDatetime(FilledColumn(df, c)[i])
                         ELSE FilledColumn(df, c)[i]]]]

\* ------------------------------------------------------- directory index
\* A message that names the first absent column only.
MissingDbColumnsFirstOnly(db) ==
    IF ~HasCol(db, DB_EMP_ID_COL) THEN <<DB_EMP_ID_COL>>
    ELSE IF ~HasCol(db, DB_VENDOR_COL) THEN <<DB_VENDOR_COL>>
    ELSE <<>>

\* Lines 450-455: the required directory columns that are absent, in the
\* order the message names them.
MissingDbColumns(db) ==
    (IF HasCol(db, DB_EMP_ID_COL) THEN <<>> ELSE <<DB_EMP_ID_COL>>)
    \o (IF HasCol(db, DB_VENDOR_COL) THEN <<>> ELSE <<DB_VENDOR_COL>>)

EmptyIndex == [x \in {} |-> NaN]

IndexPut(m, key, v) == [x \in DOMAIN m \cup {key} |-> IF x = key THEN v ELSE m[x]]

\* Lines 461-468: emp_id_to_vendor, built row by row.
RECURSIVE BuildVendorIndex(_, _)
BuildVendorIndex(rows, m) ==
    IF rows = <<>> THEN m
    ELSE LET row == Head(rows)
             emp_id == Strip(PyStr(row[DB_EMP_ID_COL]))
         IN  BuildVendorIndex(Tail(rows),
                 IF emp_id # <<>> THEN IndexPut(m, emp_id, row[DB_VENDOR_COL]) ELSE m)

\* Line 470
IgnoreSet(ignore_list) ==
    {Lower(Strip(ignore_list[i])) : i \in {j \in DOMAIN ignore_list : ignore_list[j] # <<>>}}

\* ------------------------------------------------------------ per employee
\* The ids in the order of their first row, as a set comprehension left
\* unsorted would give them.
RECURSIVE FirstSeenIds(_, _)
FirstSeenIds(cells, acc) ==
    IF cells = <<>> THEN acc
    ELSE FirstSeenIds(Tail(cells),
             IF IsNa(Head(cells)) \/ Strip(PyStr(Head(cells))) \in SeqToSet(acc)
             THEN acc
             ELSE Append(acc, Strip(PyStr(Head(cells)))))

UniqueEmpIdsUnsorted(df) == FirstSeenIds(ColumnOf(df, FULL_EMP_ID_COL), <<>>)

\* Line 480
UniqueEmpIds(df) ==
    Sorted({Strip(PyStr(df.rows[i][FULL_EMP_ID_COL])) :
               i \in {j \in 1..Len(df.rows) : ~IsNa(df.rows[j][FULL_EMP_ID_COL])}})

\* Line 484
EmpRows(df, emp_id) ==
    SelectSeq(df.rows, LAMBDA r : Strip(PyStr(r[FULL_EMP_ID_COL])) = emp_id)

\* A name taken from the last row that has one.
EmpNameLast(emp_rows) ==
    LET named == SelectSeq(emp_rows, LAMBDA r : ~IsNa(r[FULL_EMP_NAME_COL]))
    IN  IF named # <<>> THEN PyStr(named[Len(named)][FULL_EMP_NAME_COL]) ELSE <<>>

\* Lines 488-489
EmpName(emp_rows) ==
    LET named == SelectSeq(emp_rows, LAMBDA r : ~IsNa(r[FULL_EMP_NAME_COL]))
    IN  IF named # <<>> THEN PyStr(named[1][FULL_EMP_NAME_COL]) ELSE <<>>

\* Line 490
TotalHours(emp_rows) ==
    SumSeq([i \in 1..Len(emp_rows) |-> emp_rows[i][FULL_HOURS_COL].n])

\* A default rule that accepts every id.
IsDefaultIdAlways(emp_id) == TRUE

\* Line 495
IsDefaultId(emp_id) == StartsWith(emp_id, "P")

\* A match that compares the label as written.
LabelMatchesExact(v, ignore_set) == v \in ignore_set

\* Line 523: the test applied to one stripped label
LabelMatches(v, ignore_set) == Lower(Strip(v)) \in ignore_set

\* A list of the matched labels in lower case.
MatchedPtsLowered(emp_rows, ignore_set) ==
    LET pts == {Strip(PyStr(emp_rows[i][FULL_PROJECT_TYPE_COL])) :
                   i \in {j \in 1..Len(emp_rows) :
                             ~IsNa(emp_rows[j][FULL_PROJECT_TYPE_COL])}}
    IN  Sorted({Lower(v) : v \in {w \in pts : LabelMatches(w, ignore_set)}})

\* Lines 522-523
MatchedPts(emp_rows, ignore_set) ==
    LET pts == {Strip(PyStr(emp_rows[i][FULL_PROJECT_TYPE_COL])) :
                   i \in {j \in 1..Len(emp_rows) :
                             ~IsNa(emp_rows[j][FULL_PROJECT_TYPE_COL])}}
    IN  Sorted({v \in pts : LabelMatches(v, ignore_set)})

\* The four collections before the first employee (lines 472-475).
EmptyCategories ==
    [employees |-> <<>>, ignored |-> <<>>, unassigned |-> <<>>, project_flagged |-> <<>>]

\* Lines 498-505
UnassignedRecord(vendor, emp_id, emp_name, total_hours) ==
    [Vendor |-> vendor, Emp_ID |-> emp_id, Employee_Name |-> emp_name,
     Total_Hours |-> total_hours]

\* Lines 507-514
IgnoredRecord(emp_id, emp_name, total_hours) ==
    [Emp_ID |-> emp_id, Employee_Name |-> emp_name, Total_Hours |-> total_hours,
     Reason |-> "not_in_db"]

\* Lines 527-535
ProjectFlaggedRecord(vendor, emp_id, emp_name, total_hours, matched_pts) ==
    [Vendor |-> vendor, Emp_ID |-> emp_id, Employee_Name |-> emp_name,
     Total_Hours |-> total_hours, IgnoredProjectTypes |-> matched_pts]

\* A record that leaves the default-assignment flag unset.
EmployeeRecordNoFlag(vendor, emp_id, emp_name, total_hours, emp_rows, is_unassigned, has_pt, matched_pts) ==
    [Vendor |-> vendor, Emp_ID |-> emp_id, Employee_Name |-> emp_name,
     Total_Hours |-> total_hours, df |-> emp_rows, IsUnassigned |-> FALSE,
     HasIgnoredProjectType |-> has_pt, IgnoredProjectTypes |-> matched_pts]

\* Lines 538-549
EmployeeRecord(vendor, emp_id, emp_name, total_hours, emp_rows, is_unassigned, has_pt, matched_pts) ==
    [Vendor |-> vendor, Emp_ID |-> emp_id, Employee_Name |-> emp_name,
     Total_Hours |-> total_hours, df |-> emp_rows, IsUnassigned |-> is_unassigned,
     HasIgnoredProjectType |-> has_pt, IgnoredProjectTypes |-> matched_pts]

\* A body that exports an employee although its labels matched.
EmployeeStepNoFlagStop(acc, df, emp_id, emp_id_to_vendor, ignore_set) ==
    LET emp_rows == EmpRows(df, emp_id)
        emp_name == EmpName(emp_rows)
        total_hours == TotalHours(emp_rows)
        in_db == emp_id \in DOMAIN emp_id_to_vendor
        is_unassigned == ~in_db /\ IsDefaultId(emp_id)
        vendor == IF in_db THEN emp_id_to_vendor[emp_id] ELSE Str(DEFAULT_VENDOR_NAME)
        marked == IF is_unassigned
                  THEN [acc EXCEPT !.unassigned =
                            Append(@, UnassignedRecord(vendor, emp_id, emp_name, total_hours))]
                  ELSE acc
        matched == IF HasCol(df, FULL_PROJECT_TYPE_COL) /\ ignore_set # {}
                   THEN MatchedPts(emp_rows, ignore_set)
                   ELSE <<>>
        flagged == IF matched # <<>>
                   THEN [marked EXCEPT !.project_flagged =
                            Append(@, ProjectFlaggedRecord(vendor, emp_id, emp_name,
                                                           total_hours, matched))]
                   ELSE marked
    IN  IF emp_rows = <<>> THEN acc
        ELSE IF ~in_db /\ ~IsDefaultId(emp_id)
        THEN [acc EXCEPT !.ignored =
                  Append(@, IgnoredRecord(emp_id, emp_name, total_hours))]
        ELSE [flagged EXCEPT !.employees =
                  Append(@, EmployeeRecord(vendor, emp_id, emp_name, total_hours, emp_rows,
                                           is_unassigned, matched # <<>>, matched))]

\* A body that applies the prefix rule before it looks the id up.
EmployeeStepPrefixFirst(acc, df, emp_id, emp_id_to_vendor, ignore_set) ==
    LET emp_rows == EmpRows(df, emp_id)
        emp_name == EmpName(emp_rows)
        total_hours == TotalHours(emp_rows)
        in_db == emp_id \in DOMAIN emp_id_to_vendor /\ ~IsDefaultId(emp_id)
        is_unassigned == IsDefaultId(emp_id)
        vendor == IF in_db THEN emp_id_to_vendor[emp_id] ELSE Str(DEFAULT_VENDOR_NAME)
        marked == IF is_unassigned
                  THEN [acc EXCEPT !.unassigned =
                            Append(@, UnassignedRecord(vendor, emp_id, emp_name, total_hours))]
                  ELSE acc
        matched == IF HasCol(df, FULL_PROJECT_TYPE_COL) /\ ignore_set # {}
                   THEN MatchedPts(emp_rows, ignore_set)
                   ELSE <<>>
    IN  IF emp_rows = <<>> THEN acc
        ELSE IF ~in_db /\ ~IsDefaultId(emp_id)
        THEN [acc EXCEPT !.ignored =
                  Append(@, IgnoredRecord(emp_id, emp_name, total_hours))]
        ELSE IF matched # <<>>
        THEN [marked EXCEPT !.project_flagged =
                  Append(@, ProjectFlaggedRecord(vendor, emp_id, emp_name,
                                                 total_hours, matched))]
        ELSE [marked EXCEPT !.employees =
                  Append(@, EmployeeRecord(vendor, emp_id, emp_name, total_hours, emp_rows,
                                           is_unassigned, FALSE, <<>>))]

\* Lines 483-549: the body of the loop for one emp_id, on the collections
\* built so far.
EmployeeStep(acc, df, emp_id, emp_id_to_vendor, ignore_set) ==
    LET emp_rows == EmpRows(df, emp_id)
        emp_name == EmpName(emp_rows)
        total_hours == TotalHours(emp_rows)
        in_db == emp_id \in DOMAIN emp_id_to_vendor
        is_unassigned == ~in_db /\ IsDefaultId(emp_id)
        vendor == IF in_db THEN emp_id_to_vendor[emp_id] ELSE Str(DEFAULT_VENDOR_NAME)
        \* lines 498-505: appended before the project-type check
        marked == IF is_unassigned
                  THEN [acc EXCEPT !.unassigned =
                            Append(@, UnassignedRecord(vendor, emp_id, emp_name, total_hours))]
                  ELSE acc
        matched == IF HasCol(df, FULL_PROJECT_TYPE_COL) /\ ignore_set # {}
                   THEN MatchedPts(emp_rows, ignore_set)
                   ELSE <<>>
    IN  IF emp_rows = <<>> THEN acc
        ELSE IF ~in_db /\ ~IsDefaultId(emp_id)
        THEN [acc EXCEPT !.ignored =
                  Append(@, IgnoredRecord(emp_id, emp_name, total_hours))]
        ELSE IF matched # <<>>
        THEN [marked EXCEPT !.project_flagged =
                  Append(@, ProjectFlaggedRecord(vendor, emp_id, emp_name,
                                                 total_hours, matched))]
        ELSE [marked EXCEPT !.employees =
                  Append(@, EmployeeRecord(vendor, emp_id, emp_name, total_hours, emp_rows,
                                           is_unassigned, FALSE, <<>>))]

\* Lines 483-549: the loop over unique_emp_ids.
RECURSIVE EmployeeLoop(_, _, _, _, _)
EmployeeLoop(acc, df, ids, emp_id_to_vendor, ignore_set) ==
    IF ids = <<>> THEN acc
    ELSE EmployeeLoop(EmployeeStep(acc, df, Head(ids), emp_id_to_vendor, ignore_set),
                      df, Tail(ids), emp_id_to_vendor, ignore_set)

\* Lines 456-459: the ValueError of a directory without its columns.
DbSchemaError(db) ==
    [type |-> "ValueError", about |-> "Vendor DB is missing required columns",
     missing |-> MissingDbColumns(db), found |-> db.columns]

\* Line 478: the ValueError of a raw table without its columns.
FullSchemaError ==
    [type |-> "ValueError", about |-> "Full timesheet file is missing required columns.",
     missing |-> <<>>, found |-> <<>>]

NoError == [type |-> "", about |-> "", missing |-> <<>>, found |-> <<>>]

\* A failure swallowed: empty collections returned in place of the exception.
RaisedSwallowed(df, err) ==
    [raised |-> FALSE, error |-> NoError, full_df |-> df,
     employees |-> <<>>, ignored |-> <<>>, unassigned |-> <<>>,
     project_flagged |-> <<>>, unique_emp_ids |-> <<>>]

\* What a call leaves behind when it raises: the table already normalized in
\* place, the exception, and nothing returned.
Raised(df, err) ==
    [raised |-> TRUE, error |-> err, full_df |-> df,
     employees |-> <<>>, ignored |-> <<>>, unassigned |-> <<>>,
     project_flagged |-> <<>>, unique_emp_ids |-> <<>>]

\* A check that takes the project type column for a required one.
FullColumnsPresentAll(df) ==
    /\ HasCol(df, FULL_EMP_ID_COL)
    /\ HasCol(df, FULL_EMP_NAME_COL)
    /\ HasCol(df, FULL_PROJECT_TYPE_COL)

\* Line 477
FullColumnsPresent(df) == HasCol(df, FULL_EMP_ID_COL) /\ HasCol(df, FULL_EMP_NAME_COL)

\* Lines 427-551: the outcome of prepare_employee_data(full_df, db_df,
\* ignore_list): either the exception raised or the five values returned,
\* and in both cases the table the caller's full_df has become.
prepare_employee_data(df0, db, ignore_list_arg) ==
    LET df == NormalizeFull(df0)
    IN  IF MissingDbColumns(db) # <<>> THEN Raised(df, DbSchemaError(db))
        ELSE IF ~FullColumnsPresent(df) THEN Raised(df, FullSchemaError)
        ELSE LET emp_id_to_vendor == BuildVendorIndex(db.rows, EmptyIndex)
                 ignore_set == IgnoreSet(ignore_list_arg)
                 ids == UniqueEmpIds(df)
                 cats == EmployeeLoop(EmptyCategories, df, ids, emp_id_to_vendor, ignore_set)
             IN  [raised |-> FALSE, error |-> NoError, full_df |-> df,
                  employees |-> cats.employees, ignored |-> cats.ignored,
                  unassigned |-> cats.unassigned,
                  project_flagged |-> cats.project_flagged, unique_emp_ids |-> ids]

\* ------------------------------------------------------------- aggregator
IdsOf(records) == {records[i].Emp_ID : i \in DOMAIN records}

\* A rollup that opens a new row for every employee.
VendorGroupAddAlwaysNew(rows, e) ==
    Append(rows, [Vendor |-> e.Vendor, hours |-> e.Total_Hours, count |-> 1])

\* Lines 586-589: one employee added to vendor_group, a dict that keeps its
\* keys in the order of their first insertion.
VendorGroupAdd(rows, e) ==
    IF \E i \in DOMAIN rows : rows[i].Vendor = e.Vendor
    THEN [i \in DOMAIN rows |->
            IF rows[i].Vendor = e.Vendor
            THEN [rows[i] EXCEPT !.hours = @ + e.Total_Hours, !.count = @ + 1]
            ELSE rows[i]]
    ELSE Append(rows, [Vendor |-> e.Vendor, hours |-> e.Total_Hours, count |-> 1])

\* Lines 583-598: vendor_summary_rows
RECURSIVE VendorSummaryRows(_, _)
VendorSummaryRows(emps, rows) ==
    IF emps = <<>> THEN rows
    ELSE VendorSummaryRows(Tail(emps), VendorGroupAdd(rows, Head(emps)))

\* Lines 556-563: period_str, as the first and the last day or as the text
\* shown when the table has no date.
Period(df) ==
    LET days == IF HasCol(df, FULL_DATE_COL)
                THEN {df.rows[i][FULL_DATE_COL].n :
                         i \in {j \in 1..Len(df.rows) : ~IsNa(df.rows[j][FULL_DATE_COL])}}
                ELSE {}
    IN  IF days = {} THEN [no_dates |-> TRUE, from |-> 0, to |-> 0]
        ELSE [no_dates |-> FALSE, from |-> MinDay(days), to |-> MaxOf(days)]

\* Counts whose total is the number of rows that have an id.
SummaryStatsRows(emps, ign, fl, unas, pf, df) ==
    [period |-> Period(df),
     total_emps |-> Cardinality({j \in 1..Len(df.rows) : ~IsNa(df.rows[j][FULL_EMP_ID_COL])}),
     exported_emps |-> Cardinality(IdsOf(emps)),
     ignored_emps |-> Len(ign),
     failed_emps |-> Len(fl),
     unassigned_emps |-> Cardinality(IdsOf(unas)),
     project_flagged_emps |-> Cardinality(IdsOf(pf))]

\* Counts whose total takes the ids as written, without trimming them.
SummaryStatsUntrimmed(emps, ign, fl, unas, pf, df) ==
    [period |-> Period(df),
     total_emps |-> Cardinality({PyStr(df.rows[i][FULL_EMP_ID_COL]) :
                        i \in {j \in 1..Len(df.rows) : ~IsNa(df.rows[j][FULL_EMP_ID_COL])}}),
     exported_emps |-> Cardinality(IdsOf(emps)),
     ignored_emps |-> Len(ign),
     failed_emps |-> Len(fl),
     unassigned_emps |-> Cardinality(IdsOf(unas)),
     project_flagged_emps |-> Cardinality(IdsOf(pf))]

\* Lines 565-581: summary_stats without the time stamp
SummaryStats(emps, ign, fl, unas, pf, df) ==
    [period |-> Period(df),
     total_emps |-> Len(UniqueEmpIds(df)),
     exported_emps |-> Cardinality(IdsOf(emps)),
     ignored_emps |-> Len(ign),
     failed_emps |-> Len(fl),
     unassigned_emps |-> Cardinality(IdsOf(unas)),
     project_flagged_emps |-> Cardinality(IdsOf(pf))]

\* Lines 601-610: exported_rows
ExportedRows(emps) ==
    [i \in DOMAIN emps |->
        [Vendor |-> emps[i].Vendor, Emp_ID |-> emps[i].Emp_ID,
         Employee_Name |-> emps[i].Employee_Name, Total_Hours |-> emps[i].Total_Hours]]

\* Lines 613-622: ignored_rows
IgnoredRows(ign) ==
    [i \in DOMAIN ign |->
        [Emp_ID |-> ign[i].Emp_ID, Employee_Name |-> ign[i].Employee_Name,
         Total_Hours |-> ign[i].Total_Hours, Reason |-> "reason_not_in_db"]]

\* Lines 625-634: failed_rows
FailedRows(fl) ==
    [i \in DOMAIN fl |->
        [Emp_ID |-> fl[i].Emp_ID, Employee_Name |-> fl[i].Employee_Name,
         Total_Hours |-> fl[i].Total_Hours, Reason |-> fl[i].Error]]

\* Lines 637-647: unassigned_rows
UnassignedRows(unas) ==
    [i \in DOMAIN unas |->
        [Vendor |-> unas[i].Vendor, Emp_ID |-> unas[i].Emp_ID,
         Employee_Name |-> unas[i].Employee_Name, Total_Hours |-> unas[i].Total_Hours,
         Reason |-> "reason_unassigned"]]

\* Lines 650-660: proj_rows
ProjRows(pf) ==
    [i \in DOMAIN pf |->
        [Vendor |-> pf[i].Vendor, Emp_ID |-> pf[i].Emp_ID,
         Employee_Name |-> pf[i].Employee_Name, Total_Hours |-> pf[i].Total_Hours,
         IgnoredProjectTypes |-> pf[i].IgnoredProjectTypes]]

\* Lines 554-663: the values build_summary_structures returns.
build_summary_structures(emps, ign, fl, unas, pf, df) ==
    [summary_stats |-> SummaryStats(emps, ign, fl, unas, pf, df),
     vendor_summary |-> VendorSummaryRows(emps, <<>>),
     exported |-> ExportedRows(emps),
     ignored |-> IgnoredRows(ign),
     failed |-> FailedRows(fl),
     unassigned |-> UnassignedRows(unas),
     project_flagged |-> ProjRows(pf)]

\* Lines 990-993: one employee added to vendor_to_emps, a dict that keeps its
\* keys in the order of their first insertion.
VendorToEmpsAdd(groups, emp) ==
    IF \E i \in DOMAIN groups : groups[i].Vendor = emp.Vendor
    THEN [i \in DOMAIN groups |->
            IF groups[i].Vendor = emp.Vendor
            THEN [groups[i] EXCEPT !.emps = Append(@, emp)]
            ELSE groups[i]]
    ELSE Append(groups, [Vendor |-> emp.Vendor, emps |-> <<emp>>])

\* Lines 990-993: vendor_to_emps
RECURSIVE VendorToEmps(_, _)
VendorToEmps(emps, groups) ==
    IF emps = <<>> THEN groups
    ELSE VendorToEmps(Tail(emps), VendorToEmpsAdd(groups, Head(emps)))

\* Lines 728-761: the staff summary of one vendor: a row per employee and
\* the closing lines, the average kept as total over count; a table without
\* employees holds the single line "(no staff)".
build_vendor_staff_summary_df(vendor, emps_list) ==
    [Vendor |-> vendor,
     rows |-> [i \in DOMAIN emps_list |->
                 [Emp_ID |-> emps_list[i].Emp_ID,
                  Employee_Name |-> emps_list[i].Employee_Name,
                  Total_Hours |-> emps_list[i].Total_Hours]],
     no_staff |-> emps_list = <<>>,
     emp_count |-> Len(emps_list),
     total_hours |-> SumSeq([i \in DOMAIN emps_list |-> emps_list[i].Total_Hours]),
     avg_hours |-> [num |-> SumSeq([i \in DOMAIN emps_list |-> emps_list[i].Total_Hours]),
                    den |-> Len(emps_list)]]

\* Lines 995-1032: the staff summaries, one per key of vendor_to_emps.
VendorStaff(emps) ==
    [i \in DOMAIN VendorToEmps(emps, <<>>) |->
        build_vendor_staff_summary_df(VendorToEmps(emps, <<>>)[i].Vendor,
                                      VendorToEmps(emps, <<>>)[i].emps)]

NoSummary ==
    [summary_stats |-> [period |-> [no_dates |-> TRUE, from |-> 0, to |-> 0],
                        total_emps |-> 0, exported_emps |-> 0, ignored_emps |-> 0,
                        failed_emps |-> 0, unassigned_emps |-> 0,
                        project_flagged_emps |-> 0],
     vendor_summary |-> <<>>, exported |-> <<>>, ignored |-> <<>>, failed |-> <<>>,
     unassigned |-> <<>>, project_flagged |-> <<>>]

\* ------------------------------------------------------------------ inputs
sE2 == <<"E", "2">>
sP1 == <<"P", "1">>
sX3 == <<"X", "3">>
sE200 == <<"E", "2", "0", "0">>
sP100 == <<"P", "1", "0", "0">>
sAnn == <<"A", "n", "n">>
sBo == <<"B", "o">>
sAcme == <<"A", "c", "m", "e">>
sBeta == <<"B", "e", "t", "a">>
sOnBench == <<"O", "n", " ", "B", "e", "n", "c", "h">>
sOnBenchLower == <<"o", "n", " ", "b", "e", "n", "c", "h">>
sOnBenchPadded == <<" ", "O", "N", " ", "B", "E", "N", "C", "H", " ">>
sDev == <<"D", "e", "v">>
sAbc == <<"a", "b", "c">>
sSeven == <<"7">>

FullColumns ==
    <<FULL_EMP_ID_COL, FULL_EMP_NAME_COL, FULL_HOURS_COL, FULL_PROJECT_TYPE_COL>>

DbColumns == <<DB_EMP_ID_COL, DB_EMP_NAME_COL, DB_VENDOR_COL>>

\* One raw row with all four columns.
FullRow(id, name, hours, pt) ==
    [c \in SeqToSet(FullColumns) |->
        IF c = FULL_EMP_ID_COL THEN id
        ELSE IF c = FULL_EMP_NAME_COL THEN name
        ELSE IF c = FULL_HOURS_COL THEN hours
        ELSE pt]

\* One directory row with all three columns.
DbRow(id, name, vendor) ==
    [c \in SeqToSet(DbColumns) |->
        IF c = DB_EMP_ID_COL THEN id
        ELSE IF c = DB_EMP_NAME_COL THEN name
        ELSE vendor]

\* A table with fewer columns: the rows cut down to the columns kept.
Project(columns, rows) ==
    [columns |-> columns,
     rows |-> [i \in DOMAIN rows |-> [c \in SeqToSet(columns) |-> rows[i][c]]]]

\* Every table of at most MaxRows rows drawn from a set of rows.
TablesOver(RowSet) ==
    {[columns |-> FullColumns, rows |-> r] :
        r \in UNION {[1..n -> RowSet] : n \in 0..MaxRows}}

\* The name a sheet shows next to an id: continuation rows leave it empty.
NameOf(id) ==
    IF IsNa(id) THEN NaN ELSE IF id = Str(sE2) THEN Str(sBo) ELSE Str(sAnn)

\* Rows that vary the id and the project type.
PartitionRows ==
    {FullRow(id, NameOf(id), Num(1), pt) :
        id \in {NaN, Str(sE2), Str(sP1), Str(sX3)},
        pt \in {NaN, Str(sOnBench), Str(sDev)}}

\* Rows that vary the id and the hours cell.
HoursRows ==
    {FullRow(id, NameOf(id), h, NaN) :
        id \in {NaN, Str(sE2), Str(sP1)},
        h \in {NaN, Num(3), Num(-5), Str(sAbc), Str(sSeven)}}

\* Rows that vary the id, the name and the hours.
NameRows ==
    {FullRow(id, nm, h, NaN) :
        id \in {NaN, Str(sE2), Str(sP1)},
        nm \in {NaN, Str(sAnn), Str(sBo)},
        h \in {Num(3), Num(5)}}

\* Rows of ids the directory may not know, with hours and labels.
UnknownRows ==
    {FullRow(id, NameOf(id), h, pt) :
        id \in {NaN, Str(sX3), Str(sP1)},
        h \in {Num(2), Num(-3)},
        pt \in {NaN, Str(sOnBench)}}

\* Rows that vary the spelling of the project type.
LabelRows ==
    {FullRow(id, NameOf(id), Num(1), pt) :
        id \in {Str(sE2), Str(sP1)},
        pt \in {NaN, Str(sOnBench), Str(sOnBenchLower), Str(sOnBenchPadded), Str(sDev)}}

DbEmpty == [columns |-> DbColumns, rows |-> <<>>]

DbAcme == [columns |-> DbColumns, rows |-> <<DbRow(Str(sE2), Str(sBo), Str(sAcme))>>]

DbTwoVendors ==
    [columns |-> DbColumns,
     rows |-> <<DbRow(Str(sE2), Str(sBo), Str(sAcme)),
                DbRow(Str(sP1), NaN, Str(sBeta))>>]

DbOneVendor ==
    [columns |-> DbColumns,
     rows |-> <<DbRow(Str(sE2), Str(sBo), Str(sAcme)),
                DbRow(Str(sP1), Str(sAnn), Str(sAcme))>>]

DbUnknown == [columns |-> DbColumns, rows |-> <<DbRow(Str(sX3), NaN, Str(sBeta))>>]

\* The directory of the scenarios of the specification.
DbScenario ==
    [columns |-> DbColumns, rows |-> <<DbRow(Str(sE200), Str(sBo), Str(sAcme))>>]

\* The raw rows of the first scenario: P100/Ann/3, P100/blank/5, E200/Bo/2.
ScenarioTable ==
    [columns |-> FullColumns,
     rows |-> <<FullRow(Str(sP100), Str(sAnn), Num(3), NaN),
                FullRow(Str(sP100), NaN, Num(5), NaN),
                FullRow(Str(sE200), Str(sBo), Num(2), NaN)>>]

\* The second scenario: E200 carries the project type "On Bench".
ScenarioTableFlagged ==
    [columns |-> FullColumns,
     rows |-> <<FullRow(Str(sP100), Str(sAnn), Num(3), Str(sDev)),
                FullRow(Str(sP100), NaN, Num(5), Str(sDev)),
                FullRow(Str(sE200), Str(sBo), Num(2), Str(sOnBench))>>]

\* Tables and directories that lack columns.
SchemaRows == <<FullRow(Str(sE2), Str(sBo), Num(1), Str(sDev))>>

SchemaTables ==
    {Project(cols, SchemaRows) :
        cols \in {FullColumns,
                  <<FULL_EMP_NAME_COL, FULL_HOURS_COL, FULL_PROJECT_TYPE_COL>>,
                  <<FULL_EMP_ID_COL, FULL_HOURS_COL>>,
                  <<FULL_HOURS_COL, FULL_PROJECT_TYPE_COL>>,
                  <<FULL_EMP_ID_COL, FULL_EMP_NAME_COL>>}}

SchemaDbs ==
    {Project(cols, DbAcme.rows) :
        cols \in {DbColumns,
                  <<DB_EMP_ID_COL, DB_VENDOR_COL>>,
                  <<DB_EMP_ID_COL, DB_EMP_NAME_COL>>,
                  <<DB_EMP_NAME_COL, DB_VENDOR_COL>>,
                  <<DB_EMP_NAME_COL>>}}

\* The columns of a raw table that also has the date column.
DatedColumns == FullColumns \o <<FULL_DATE_COL>>

\* One raw row with all five columns.
DatedRow(id, name, hours, pt, date) ==
    [c \in SeqToSet(DatedColumns) |->
        IF c = FULL_DATE_COL THEN date ELSE FullRow(id, name, hours, pt)[c]]

\* The hours, label and date of a row: clean, hours that are no number, a
\* date that is no date next to a label of the ignore list, all three missing.
RowShapes ==
    {<<Num(3), Str(sDev), Date(2)>>,
     <<Str(sAbc), Str(sDev), Date(1)>>,
     <<Num(2), Str(sOnBench), Str(sAbc)>>,
     <<NaN, NaN, NaN>>}

\* Rows that carry the anomalies a run has to absorb.
AnomalyRows ==
    {DatedRow(id, NameOf(id), sh[1], sh[2], sh[3]) :
        id \in {Str(sE2), Str(sP1), Str(sX3)}, sh \in RowShapes}

\* The column sets that keep the two required columns.
OptionalColumnSets ==
    {DatedColumns,
     <<FULL_EMP_ID_COL, FULL_EMP_NAME_COL, FULL_HOURS_COL, FULL_DATE_COL>>,
     <<FULL_EMP_ID_COL, FULL_EMP_NAME_COL, FULL_PROJECT_TYPE_COL, FULL_DATE_COL>>,
     FullColumns,
     <<FULL_EMP_ID_COL, FULL_EMP_NAME_COL, FULL_DATE_COL>>}

\* Every table of at most MaxRows anomaly rows, cut to one of these sets.
AnomalyTables ==
    {Project(cols, r) :
        cols \in OptionalColumnSets,
        r \in UNION {[1..n -> AnomalyRows] : n \in 0..MaxRows}}

\* A directory without the optional name column.
DbNoNames == Project(<<DB_EMP_ID_COL, DB_VENDOR_COL>>, DbTwoVendors.rows)

\* Four employees of four kinds: one of the directory, one with the default
\* prefix, one unknown, one of the directory with a label of the ignore list.
ExportRows ==
    {FullRow(Str(sE2), Str(sBo), Num(3), Str(sDev)),
     FullRow(Str(sP1), Str(sAnn), Num(5), NaN),
     FullRow(Str(sX3), Str(sAnn), Num(2), Str(sOnBench)),
     FullRow(Str(sE200), Str(sBo), Num(4), Str(sOnBench))}

\* Every table of at most MaxRows + 2 of these rows.
ExportTables ==
    {[columns |-> FullColumns, rows |-> r] :
        r \in UNION {[1..n -> ExportRows] : n \in 0..(MaxRows + 2)}}

sE2Left == <<" ", "E", "2">>
sE2Right == <<"E", "2", " ">>
sBlank == <<" ">>

\* Rows whose ids are written with spaces around them, or as a space only.
PaddedRows ==
    {FullRow(Str(id), Str(sBo), Num(1), Str(sDev)) : id \in {sE2, sE2Left, sE2Right, sBlank}}

DbMix ==
    [columns |-> DbColumns,
     rows |-> <<DbRow(Str(sE2), Str(sBo), Str(sAcme)),
                DbRow(Str(sE200), Str(sBo), Str(sBeta))>>]

DbMixOne ==
    [columns |-> DbColumns,
     rows |-> <<DbRow(Str(sE2), Str(sBo), Str(sAcme)),
                DbRow(Str(sP1), Str(sAnn), Str(sAcme)),
                DbRow(Str(sE200), Str(sBo), Str(sAcme))>>]

sNanLeft == <<" ", "n", "a", "n">>

\* Directory rows whose id cell is missing, blank, plain or padded.
DirectoryRows ==
    {DbRow(id, NaN, Str(v)) :
        id \in {NaN, Str(sBlank), Str(sE2), Str(sE2Right)}, v \in {sAcme, sBeta}}

\* Every directory of at most MaxRows of these rows.
DirectoryTables ==
    {[columns |-> DbColumns, rows |-> r] :
        r \in UNION {[1..n -> DirectoryRows] : n \in 0..MaxRows}}

\* Raw rows whose ids are plain, blank, or the letters "nan" after a space,
\* which a sheet reader keeps as text.
LookupRows ==
    {FullRow(Str(id), Str(sBo), Num(1), NaN) : id \in {sE2, sBlank, sNanLeft}}

\* Rows of a sheet with merged cells: the id, the name and the label are
\* written on some rows and left out on others.
FillRows ==
    {FullRow(id, NameOf(id), Num(1), pt) :
        id \in {NaN, Str(sE2), Str(sP1)}, pt \in {NaN, Str(sDev)}}

\* Every table of at most MaxRows + 1 of these rows.
FillTables ==
    {[columns |-> FullColumns, rows |-> r] :
        r \in UNION {[1..n -> FillRows] : n \in 0..(MaxRows + 1)}}

\* Rows of two ids whose name and label are written on some rows and left out
\* on others.
CarryRows ==
    {FullRow(id, nm, Num(1), pt) :
        id \in {Str(sE2), Str(sP1)}, nm \in {NaN, Str(sBo)}, pt \in {NaN, Str(sOnBench)}}

\* A directory whose organizations are not in the order of their ids.
DbReversed ==
    [columns |-> DbColumns,
     rows |-> <<DbRow(Str(sP1), Str(sAnn), Str(sAcme)),
                DbRow(Str(sE2), Str(sBo), Str(sBeta)),
                DbRow(Str(sX3), Str(sAnn), Str(sAcme))>>]

\* ------------------------------------------------------------------- state
VARIABLES
    full_file,              \* the uploaded raw table, as read
    db_df,                  \* the directory table
    ignore_list,            \* config["ignore_project_types"]
    full_df,                \* the raw table object prepare_employee_data works on
    pc,                     \* "start", "folder", "export", "done", "error",
                            \* "stopped", "second"
    employees,              \* the five values prepare_employee_data returned
    ignored,
    unassigned,
    project_flagged,
    unique_emp_ids,
    error,                  \* the exception shown by run_main_page
    failed,                 \* run_main_page: failed
    successful_employees,   \* run_main_page: successful_employees
    employees_for_summary,  \* run_main_page: employees_for_summary
    summary,                \* what build_summary_structures returned
    vendor_staff,           \* the staff summary written for each vendor
    second,                 \* the outcome of a second call on the same inputs
    output_mode,            \* the sidebar's choice: "folder" or "zip"
    output_folder,          \* the folder path typed in, None in zip mode
    confirm_clear,          \* the clear-folder checkbox
    disk,                   \* the output folder on disk: "absent", "empty", "non-empty"
    deleted,                \* shutil.rmtree(output_folder) was called
    created,                \* os.makedirs(output_folder) was called
    written                 \* the kinds of output written to the folder or the zip

vars ==
    <<full_file, db_df, ignore_list, full_df, pc, employees, ignored, unassigned,
      project_flagged, unique_emp_ids, error, failed, successful_employees,
      employees_for_summary, summary, vendor_staff, second,
      output_mode, output_folder, confirm_clear, disk, deleted, created, written>>

NoSecond ==
    [called |-> FALSE, same_object |-> FALSE, prep |-> Raised(<<>>, NoError),
     summary |-> NoSummary]

\* Line 779
None == <<>>

\* The default of the output folder path (config, line 778).
sOutput == <<"o", "u", "t">>

\* Lines 769-786: what the sidebar can hold when the page is rendered, with
\* the state of the folder on disk.  The checkbox exists only in folder mode
\* with a path whose folder exists and is not empty.
SidebarStates ==
    {[output_mode |-> "zip", output_folder |-> None, confirm_clear |-> FALSE, disk |-> d] :
        d \in {"absent", "empty", "non-empty"}}
    \cup {[output_mode |-> "folder", output_folder |-> <<>>, confirm_clear |-> FALSE,
           disk |-> "absent"]}
    \cup {[output_mode |-> "folder", output_folder |-> sOutput, confirm_clear |-> FALSE,
           disk |-> d] : d \in {"absent", "empty", "non-empty"}}
    \cup {[output_mode |-> "folder", output_folder |-> sOutput, confirm_clear |-> TRUE,
           disk |-> "non-empty"]}

\* Zip mode with no output folder on disk.
SidebarZip ==
    [output_mode |-> "zip", output_folder |-> None, confirm_clear |-> FALSE,
     disk |-> "absent"]

\* The state of a run before the start button: the inputs are loaded, the
\* sidebar is set and nothing is computed.
InitRun(tables, dbs, ignores, sidebars) ==
    /\ \E sb \in sidebars :
          /\ output_mode = sb.output_mode
          /\ output_folder = sb.output_folder
          /\ confirm_clear = sb.confirm_clear
          /\ disk = sb.disk
    /\ deleted = FALSE
    /\ created = FALSE
    /\ written = {}
    /\ full_file \in tables
    /\ db_df \in dbs
    /\ ignore_list \in ignores
    /\ full_df = full_file
    /\ pc = "start"
    /\ employees = <<>>
    /\ ignored = <<>>
    /\ unassigned = <<>>
    /\ project_flagged = <<>>
    /\ unique_emp_ids = <<>>
    /\ error = NoError
    /\ failed = <<>>
    /\ successful_employees = <<>>
    /\ employees_for_summary = <<>>
    /\ summary = NoSummary
    /\ vendor_staff = <<>>
    /\ second = NoSecond

\* A run in zip mode.
InitWith(tables, dbs, ignores) == InitRun(tables, dbs, ignores, {SidebarZip})

InitSchema == InitRun(SchemaTables, SchemaDbs, {<<sOnBench>>}, SidebarStates)

InitScenario ==
    InitRun({ScenarioTable, ScenarioTableFlagged}, {DbScenario}, {<<>>, <<sOnBenchLower>>},
            SidebarStates)

Init ==
    \/ InitWith(TablesOver(PartitionRows), {DbEmpty, DbAcme, DbTwoVendors},
                {<<>>, <<sOnBenchLower>>})
    \/ InitSchema
    \/ InitScenario

InitHours ==
    \/ InitWith(TablesOver(HoursRows), {DbAcme, DbOneVendor}, {<<sOnBench>>})
    \/ InitSchema
    \/ InitScenario

InitNames ==
    \/ InitWith(TablesOver(NameRows), {DbAcme, DbTwoVendors}, {<<>>})
    \/ InitSchema
    \/ InitScenario

InitUnknown ==
    \/ InitWith(TablesOver(UnknownRows), {DbEmpty, DbAcme, DbUnknown},
                {<<>>, <<sOnBench>>})
    \/ InitSchema
    \/ InitScenario

InitLabels ==
    \/ InitWith(TablesOver(LabelRows), {DbAcme, DbOneVendor},
                {<<sOnBenchLower>>, <<sOnBenchPadded, <<>>, sDev>>})
    \/ InitSchema
    \/ InitScenario

InitAnomalies ==
    \/ InitWith(AnomalyTables, {DbAcme, DbNoNames}, {<<sOnBench>>})
    \/ InitSchema
    \/ InitScenario

InitExport ==
    \/ InitWith(ExportTables, {DbMix, DbMixOne}, {<<sOnBench>>})
    \/ InitWith(TablesOver(PaddedRows), {DbMix}, {<<sOnBench>>})
    \/ InitSchema
    \/ InitScenario

InitDirectory ==
    \/ InitWith(TablesOver(LookupRows), DirectoryTables, {<<>>})
    \/ InitSchema
    \/ InitScenario

InitFill ==
    \/ InitWith(FillTables, {DbAcme}, {<<sOnBench>>})
    \/ InitSchema
    \/ InitScenario

InitOrder ==
    \/ InitWith(TablesOver(PartitionRows), {DbReversed, DbAcme}, {<<sOnBench>>})
    \/ InitSchema
    \/ InitScenario

InitCarry ==
    \/ InitWith(TablesOver(CarryRows), {DbAcme}, {<<sOnBench>>})
    \/ InitSchema
    \/ InitScenario

\* ----------------------------------------------------------------- actions
\* Lines 784 and 836: the output folder exists and holds something.
FolderNotEmpty == disk = "non-empty"

\* A start button that ignores the clear-folder checkbox.
DisableStartUnconfirmed == output_mode = "folder" /\ output_folder = <<>>

\* Lines 832-837: the start button is disabled.  Both tables are loaded in
\* every run of the model, so line 832 gives False.
DisableStart ==
    /\ output_mode = "folder"
    /\ \/ output_folder = <<>>
       \/ FolderNotEmpty /\ ~confirm_clear

\* run_main_page, lines 839-865: the start button is pressed and
\* prepare_employee_data returns.  In zip mode lines 867-879 do nothing.
PrepareReturns ==
    /\ pc = "start"
    /\ ~DisableStart
    /\ LET r == prepare_employee_data(full_df, db_df, ignore_list)
       IN  /\ ~r.raised
           /\ full_df' = r.full_df
           /\ employees' = r.employees
           /\ ignored' = r.ignored
           /\ unassigned' = r.unassigned
           /\ project_flagged' = r.project_flagged
           /\ unique_emp_ids' = r.unique_emp_ids
    /\ failed' = <<>>
    /\ successful_employees' = <<>>
    /\ pc' = IF output_mode = "folder" THEN "folder" ELSE "export"
    /\ UNCHANGED <<full_file, db_df, ignore_list, error, employees_for_summary,
                   summary, vendor_staff,
                   second,
                   output_mode, output_folder, confirm_clear, disk, deleted, created,
                   written>>

\* A run that clears and creates the output folder before it reads the
\* tables.
PrepareRaisesAfterClear ==
    /\ pc = "start"
    /\ ~DisableStart
    /\ LET r == prepare_employee_data(full_df, db_df, ignore_list)
       IN  /\ r.raised
           /\ full_df' = r.full_df
           /\ error' = r.error
    /\ pc' = "error"
    /\ deleted' = (output_mode = "folder" /\ FolderNotEmpty)
    /\ created' = (output_mode = "folder")
    /\ disk' = IF output_mode = "folder" THEN "empty" ELSE disk
    /\ UNCHANGED <<full_file, db_df, ignore_list, employees, ignored, unassigned,
                   project_flagged, unique_emp_ids, failed, successful_employees,
                   employees_for_summary, summary, vendor_staff, second,
                   output_mode, output_folder, confirm_clear, written>>

\* run_main_page, lines 839-859 and 1134-1135: the start button is pressed,
\* prepare_employee_data raises and the run ends by showing the exception.
PrepareRaises ==
    /\ pc = "start"
    /\ ~DisableStart
    /\ LET r == prepare_employee_data(full_df, db_df, ignore_list)
       IN  /\ r.raised
           /\ full_df' = r.full_df
           /\ error' = r.error
    /\ pc' = "error"
    /\ UNCHANGED <<full_file, db_df, ignore_list, employees, ignored, unassigned,
                   project_flagged, unique_emp_ids, failed, successful_employees,
                   employees_for_summary, summary, vendor_staff,
                   second,
                   output_mode, output_folder, confirm_clear, disk, deleted, created,
                   written>>

\* Lines 867-872 in folder mode: a folder that holds something is removed,
\* and the folder is created.
ClearFolder ==
    /\ pc = "folder"
    /\ deleted' = FolderNotEmpty
    /\ created' = TRUE
    /\ disk' = "empty"
    /\ pc' = "export"
    /\ UNCHANGED <<full_file, db_df, ignore_list, full_df, employees, ignored, unassigned,
                   project_flagged, unique_emp_ids, error, failed, successful_employees,
                   employees_for_summary, summary, vendor_staff, second,
                   output_mode, output_folder, confirm_clear, written>>

\* Lines 867-879 in folder mode: clearing or creating the folder raises, the
\* message is shown and the run returns.  rmtree may have removed nothing,
\* part or all of the folder before it raised; makedirs may raise after
\* rmtree removed the folder.
ClearFolderFails ==
    /\ pc = "folder"
    /\ \/ /\ FolderNotEmpty
          /\ deleted' = TRUE
          /\ disk' \in {"non-empty", "empty", "absent"}
       \/ /\ UNCHANGED <<deleted, disk>>
    /\ created' = FALSE
    /\ pc' = "stopped"
    /\ UNCHANGED <<full_file, db_df, ignore_list, full_df, employees, ignored, unassigned,
                   project_flagged, unique_emp_ids, error, failed, successful_employees,
                   employees_for_summary, summary, vendor_staff, second,
                   output_mode, output_folder, confirm_clear, written>>

\* Lines 905-935: the folder after a file was written into it.
DiskWritten == IF output_mode = "folder" THEN "non-empty" ELSE disk

\* The employee the export loop is at (line 887).
ExportIdx == Len(successful_employees) + Len(failed) + 1

\* Lines 937-944
SuccessRecord(emp) ==
    [Vendor |-> emp.Vendor, Emp_ID |-> emp.Emp_ID,
     Employee_Name |-> emp.Employee_Name, Total_Hours |-> emp.Total_Hours]

\* Lines 947-955
FailedRecord(emp) ==
    [Vendor |-> emp.Vendor, Emp_ID |-> emp.Emp_ID,
     Employee_Name |-> emp.Employee_Name, Total_Hours |-> emp.Total_Hours,
     Error |-> "write failed"]

\* Lines 887-944: one pass of the export loop whose writes succeed.
ExportSucceeds ==
    /\ pc = "export"
    /\ ExportIdx <= Len(employees)
    /\ successful_employees' = Append(successful_employees, SuccessRecord(employees[ExportIdx]))
    /\ written' = written \cup {"employee"}
    /\ disk' = DiskWritten
    /\ UNCHANGED <<full_file, db_df, ignore_list, full_df, pc, employees, ignored,
                   unassigned, project_flagged, unique_emp_ids, error, failed,
                   employees_for_summary, summary, vendor_staff,
                   second,
                   output_mode, output_folder, confirm_clear, deleted, created>>

\* An aggregation that takes every employee, exported or not.
FilterBySuccessAll(records, succ) == records

\* A loop body that records the success before the write that raises.
ExportFailsBoth ==
    /\ pc = "export"
    /\ ExportIdx <= Len(employees)
    /\ successful_employees' = Append(successful_employees, SuccessRecord(employees[ExportIdx]))
    /\ failed' = Append(failed, FailedRecord(employees[ExportIdx]))
    /\ written' = written \cup {"employee"}
    /\ disk' = DiskWritten
    /\ UNCHANGED <<full_file, db_df, ignore_list, full_df, pc, employees, ignored,
                   unassigned, project_flagged, unique_emp_ids, error,
                   employees_for_summary, summary, vendor_staff,
                   second,
                   output_mode, output_folder, confirm_clear, deleted, created>>

\* A failure handler that also files the employee under ignored.
ExportFailsIgnores ==
    /\ pc = "export"
    /\ ExportIdx <= Len(employees)
    /\ failed' = Append(failed, FailedRecord(employees[ExportIdx]))
    /\ ignored' = Append(ignored, IgnoredRecord(employees[ExportIdx].Emp_ID,
                                                employees[ExportIdx].Employee_Name,
                                                employees[ExportIdx].Total_Hours))
    /\ UNCHANGED <<full_file, db_df, ignore_list, full_df, pc, employees,
                   unassigned, project_flagged, unique_emp_ids, error,
                   successful_employees, employees_for_summary, summary, vendor_staff,
                   second,
                   output_mode, output_folder, confirm_clear, disk, deleted, created,
                   written>>

\* Lines 887-955: one pass of the export loop in which a write raises,
\* before anything was written or after the vendor folder, the workbook or
\* its zip entry was.
ExportFails ==
    /\ pc = "export"
    /\ ExportIdx <= Len(employees)
    /\ failed' = Append(failed, FailedRecord(employees[ExportIdx]))
    /\ \/ UNCHANGED <<written, disk>>
       \/ /\ written' = written \cup {"employee"}
          /\ disk' = DiskWritten
    /\ UNCHANGED <<full_file, db_df, ignore_list, full_df, pc, employees, ignored,
                   unassigned, project_flagged, unique_emp_ids, error,
                   successful_employees, employees_for_summary, summary, vendor_staff,
                   second,
                   output_mode, output_folder, confirm_clear, deleted, created>>

\* Line 961
SuccessKeys(succ) == {<<succ[i].Emp_ID, succ[i].Vendor>> : i \in DOMAIN succ}

\* Lines 962-968: the records whose (id, vendor) key was exported.
FilterBySuccess(records, succ) ==
    SelectSeq(records, LAMBDA r : <<r.Emp_ID, r.Vendor>> \in SuccessKeys(succ))

\* Lines 960-1055: after the loop, the summary of what was exported, the
\* staff summary of each vendor and the summary document, written to the
\* folder or the zip.
Summarise ==
    /\ pc = "export"
    /\ ExportIdx > Len(employees)
    /\ employees_for_summary' = FilterBySuccess(employees, successful_employees)
    /\ summary' = build_summary_structures(
                      FilterBySuccess(employees, successful_employees), ignored, failed,
                      FilterBySuccess(unassigned, successful_employees),
                      project_flagged, full_df)
    /\ vendor_staff' = VendorStaff(FilterBySuccess(employees, successful_employees))
    /\ pc' = "done"
    /\ written' = written \cup {"summary"}
                     \cup (IF successful_employees = <<>> THEN {} ELSE {"vendor"})
    /\ disk' = DiskWritten
    /\ UNCHANGED <<full_file, db_df, ignore_list, full_df, employees, ignored, unassigned,
                   project_flagged, unique_emp_ids, error, failed, successful_employees,
                   second,
                   output_mode, output_folder, confirm_clear, deleted, created>>

\* prepare_employee_data followed by build_summary_structures on all it
\* returned, as one value.
Engine(df, db, ignore_list_arg) ==
    LET r == prepare_employee_data(df, db, ignore_list_arg)
    IN  [prep |-> r,
         summary |-> IF r.raised THEN NoSummary
                     ELSE build_summary_structures(r.employees, r.ignored, <<>>,
                                                   r.unassigned, r.project_flagged,
                                                   r.full_df)]

\* The engine called a second time with the same directory and ignore list,
\* either on the table object the first call normalized in place or on the
\* table as uploaded.
CallAgain ==
    /\ pc \in {"export", "error"}
    /\ ExportIdx = 1
    /\ \E same_object \in BOOLEAN :
          LET e == Engine(IF same_object THEN full_df ELSE full_file, db_df, ignore_list)
          IN  second' = [called |-> TRUE, same_object |-> same_object,
                         prep |-> e.prep, summary |-> e.summary]
    /\ pc' = "second"
    /\ UNCHANGED <<full_file, db_df, ignore_list, full_df, employees, ignored, unassigned,
                   project_flagged, unique_emp_ids, error, failed, successful_employees,
                   employees_for_summary, summary, vendor_staff,
                   output_mode, output_folder, confirm_clear, disk, deleted, created,
                   written>>

Next ==
    \/ PrepareReturns
    \/ PrepareRaises
    \/ ClearFolder
    \/ ClearFolderFails
    \/ ExportSucceeds
    \/ ExportFails
    \/ Summarise
    \/ CallAgain

Spec == Init /\ [][Next]_vars

SpecHours == InitHours /\ [][Next]_vars

SpecNames == InitNames /\ [][Next]_vars

SpecUnknown == InitUnknown /\ [][Next]_vars

SpecLabels == InitLabels /\ [][Next]_vars

SpecAnomalies == InitAnomalies /\ [][Next]_vars

SpecExport == InitExport /\ [][Next]_vars

SpecDirectory == InitDirectory /\ [][Next]_vars

SpecFill == InitFill /\ [][Next]_vars

SpecOrder == InitOrder /\ [][Next]_vars

SpecCarry == InitCarry /\ [][Next]_vars

\* ------------------------------------------------------------ properties
\* prepare_employee_data has returned its five values to run_main_page.
Returned ==
    pc \in {"folder", "stopped", "export", "done"} \/ (pc = "second" /\ error = NoError)

\* The distinct trimmed ids written in the uploaded rows.
RawIdSet ==
    IF HasCol(full_file, FULL_EMP_ID_COL)
    THEN {Strip(full_file.rows[i][FULL_EMP_ID_COL].s) :
             i \in {j \in 1..Len(full_file.rows) :
                       full_file.rows[j][FULL_EMP_ID_COL].k = "str"}}
    ELSE {}

\* Some directory row carries the id.
InDirectory(id) ==
    \E j \in 1..Len(db_df.rows) : Strip(PyStr(db_df.rows[j][DB_EMP_ID_COL])) = id

\* The rows attributed to an id: those whose id cell, after fill-forward,
\* trims to the id.
RowsOfId(id) ==
    {i \in 1..Len(full_df.rows) : Strip(PyStr(full_df.rows[i][FULL_EMP_ID_COL])) = id}

\* A label equals an entry of the ignore list after trimming, ignoring case.
InIgnoreList(label) ==
    \E j \in 1..Len(ignore_list) : Lower(Strip(label)) = Lower(Strip(ignore_list[j]))

\* Row i carries, in the uploaded table, a label of the ignore list.
RowIsFlagged(i) ==
    /\ HasCol(full_file, FULL_PROJECT_TYPE_COL)
    /\ full_file.rows[i][FULL_PROJECT_TYPE_COL].k = "str"
    /\ InIgnoreList(full_file.rows[i][FULL_PROJECT_TYPE_COL].s)

RecordsOf(records, id) == SelectSeq(records, LAMBDA r : r.Emp_ID = id)

Disjoint(A, B) == A \cap B = {}

\* C1 as stated: after prepare_employee_data returns, the id sets of
\* employees, ignored, unassigned and project_flagged are pairwise disjoint
\* and their union is the set of distinct ids of the raw rows.
C1_FourWayPartition ==
    Returned =>
        /\ Disjoint(IdsOf(employees), IdsOf(ignored))
        /\ Disjoint(IdsOf(employees), IdsOf(unassigned))
        /\ Disjoint(IdsOf(employees), IdsOf(project_flagged))
        /\ Disjoint(IdsOf(ignored), IdsOf(unassigned))
        /\ Disjoint(IdsOf(ignored), IdsOf(project_flagged))
        /\ Disjoint(IdsOf(unassigned), IdsOf(project_flagged))
        /\ IdsOf(employees) \cup IdsOf(ignored) \cup IdsOf(unassigned)
               \cup IdsOf(project_flagged) = RawIdSet

\* C1 amended: the id sets of employees, ignored and project_flagged are
\* pairwise disjoint and their union is the set of distinct ids of the raw
\* rows; unassigned is disjoint from ignored and lies inside the union of
\* employees and project_flagged, so the union of all four is that set too.
C1_ThreeWayPartition ==
    Returned =>
        /\ Disjoint(IdsOf(employees), IdsOf(ignored))
        /\ Disjoint(IdsOf(employees), IdsOf(project_flagged))
        /\ Disjoint(IdsOf(ignored), IdsOf(project_flagged))
        /\ IdsOf(employees) \cup IdsOf(ignored) \cup IdsOf(project_flagged) = RawIdSet
        /\ Disjoint(IdsOf(unassigned), IdsOf(ignored))
        /\ IdsOf(unassigned) \subseteq IdsOf(employees) \cup IdsOf(project_flagged)
        /\ SeqToSet(unique_emp_ids) = RawIdSet

\* C1 witness: a returned partition with an ignored id and a default-assigned
\* id that is exported as well.
C1_Witness ==
    /\ Returned
    /\ ignored # <<>>
    /\ IdsOf(unassigned) \cap IdsOf(employees) # {}

\* The ids of C2: resolvable to an organization and carrying a flagged row.
FlaggedResolvable ==
    {id \in RawIdSet :
        /\ InDirectory(id) \/ StartsWith(id, "P")
        /\ \E i \in RowsOfId(id) : RowIsFlagged(i)}

\* C2 as stated: an id that resolves to an organization and has a row whose
\* label is in the ignore set is in project_flagged and in neither employees
\* nor unassigned.
C2_FlaggedOnlyInProjectFlagged ==
    Returned =>
        \A id \in FlaggedResolvable :
            /\ id \in IdsOf(project_flagged)
            /\ id \notin IdsOf(employees)
            /\ id \notin IdsOf(unassigned)

\* C2 amended: such an id is in project_flagged and not in employees; it is
\* in unassigned exactly when it resolved by the default prefix and not by
\* the directory.
C2_FlaggedPrecedence ==
    Returned =>
        \A id \in FlaggedResolvable :
            /\ id \in IdsOf(project_flagged)
            /\ id \notin IdsOf(employees)
            /\ (id \in IdsOf(unassigned)) <=> ~InDirectory(id)

\* C2 witness: a flagged id of the directory next to a flagged default id.
C2_Witness ==
    /\ Returned
    /\ \E id \in FlaggedResolvable : InDirectory(id)
    /\ \E id \in FlaggedResolvable : ~InDirectory(id)

MinOf(S) == CHOOSE x \in S : \A y \in S : x <= y

\* The hours of a set of rows of the normalized table, summed.
RECURSIVE SumOfRows(_)
SumOfRows(S) ==
    IF S = {} THEN 0
    ELSE LET i == CHOOSE j \in S : TRUE
         IN  full_df.rows[i][FULL_HOURS_COL].n + SumOfRows(S \ {i})

\* The first name that is not missing among the rows of an id, in row order,
\* in the normalized table; the empty string when there is none.
FirstName(id) ==
    LET named == {i \in RowsOfId(id) : ~IsNa(full_df.rows[i][FULL_EMP_NAME_COL])}
    IN  IF named = {} THEN <<>> ELSE full_df.rows[MinOf(named)][FULL_EMP_NAME_COL].s

\* The ids absent from the directory that start with the default prefix.
DefaultIds == {id \in RawIdSet : ~InDirectory(id) /\ StartsWith(id, "P")}

\* The ids absent from the directory that do not start with it.
UnknownIds == {id \in RawIdSet : ~InDirectory(id) /\ ~StartsWith(id, "P")}

\* The unassigned record C3 describes for an id.
DefaultRecord(id) ==
    [Vendor |-> Str(DEFAULT_VENDOR_NAME), Emp_ID |-> id,
     Employee_Name |-> FirstName(id), Total_Hours |-> SumOfRows(RowsOfId(id))]

C4_UnknownIgnored ==
    Returned =>
        /\ \A id \in UnknownIds :
              /\ Len(RecordsOf(ignored, id)) = 1
              /\ RecordsOf(ignored, id)[1].Reason = "not_in_db"
              /\ id \notin IdsOf(employees) \cup IdsOf(unassigned) \cup IdsOf(project_flagged)
        /\ \A id \in DefaultIds :
              id \in IdsOf(unassigned) /\ id \notin IdsOf(ignored)
        /\ IdsOf(ignored) = UnknownIds

\* C4 witness: an ignored id with negative hours that has a row carrying a
\* label of the ignore list, next to an absent id with the default prefix.
C4_Witness ==
    /\ Returned
    /\ \E id \in UnknownIds :
          /\ \E i \in RowsOfId(id) : RowIsFlagged(i)
          /\ RecordsOf(ignored, id)[1].Total_Hours < 0
    /\ DefaultIds # {}

\* The hours the uploaded cell of row i stands for: a number is itself, a
\* text of digits is its value, any other text and a missing cell are 0.
CoercedRawHours(i) ==
    IF ~HasCol(full_file, FULL_HOURS_COL) THEN 0
    ELSE LET c == full_file.rows[i][FULL_HOURS_COL]
         IN  IF c.k = "num" THEN c.n
             ELSE IF c.k = "str" /\ c.s # <<>> /\ \A j \in DOMAIN c.s : IsDigit(c.s[j])
             THEN ParseDigits(c.s, 0)
             ELSE 0

RECURSIVE SumOfRawRows(_)
SumOfRawRows(S) ==
    IF S = {} THEN 0
    ELSE LET i == CHOOSE j \in S : TRUE
         IN  CoercedRawHours(i) + SumOfRawRows(S \ {i})

\* Every record prepare_employee_data returned, cut to its id and hours.
AllTotals ==
    {<<r.Emp_ID, r.Total_Hours>> :
        r \in SeqToSet(employees) \cup SeqToSet(ignored) \cup SeqToSet(unassigned)
                 \cup SeqToSet(project_flagged)}

\* C5: the total hours of every category record is the sum, over the rows of
\* its id, of the row's hours with text that is no number and missing cells
\* counted as 0, negative sums included.
C5_HoursConservation ==
    Returned =>
        \A t \in AllTotals : t[2] = SumOfRawRows(RowsOfId(t[1]))

\* The employees of the summary that belong to an organization.
SummaryEmployeesOf(vendor) ==
    SelectSeq(employees_for_summary, LAMBDA e : e.Vendor = vendor)

C6_WitnessNoRow ==
    /\ pc = "done"
    /\ failed # <<>>
    /\ \E k \in DOMAIN failed :
          \A i \in DOMAIN summary.vendor_summary :
              summary.vendor_summary[i].Vendor # failed[k].Vendor

\* C7: a second call of the engine on the same directory and ignore list,
\* given the uploaded table again or the table object the first call
\* normalized, raises the same exception or returns the same five values,
\* display names included, and the same rollup and counts.
C7_SecondCallIdentical ==
    pc = "second" =>
        /\ second.prep.raised = (error # NoError)
        /\ second.prep.error = error
        /\ second.prep.employees = employees
        /\ second.prep.ignored = ignored
        /\ second.prep.unassigned = unassigned
        /\ second.prep.project_flagged = project_flagged
        /\ second.prep.unique_emp_ids = unique_emp_ids
        /\ second.prep.full_df = full_df
        /\ second.summary =
              IF error # NoError THEN NoSummary
              ELSE build_summary_structures(employees, ignored, <<>>, unassigned,
                                            project_flagged, full_df)

\* C7 witness: the second call was given the table the first call had
\* changed in place, and the first call had exported and flagged or ignored.
C7_Witness ==
    /\ pc = "second"
    /\ second.same_object
    /\ full_df # full_file
    /\ employees # <<>>
    /\ second.summary.vendor_summary # <<>>

\* The labels, trimmed and otherwise as written, that the rows of an id carry
\* in the normalized table and that are in the ignore list.
MatchedLabels(id) ==
    IF ~HasCol(full_df, FULL_PROJECT_TYPE_COL) THEN {}
    ELSE {Strip(full_df.rows[i][FULL_PROJECT_TYPE_COL].s) :
             i \in {j \in RowsOfId(id) :
                       /\ full_df.rows[j][FULL_PROJECT_TYPE_COL].k = "str"
                       /\ InIgnoreList(full_df.rows[j][FULL_PROJECT_TYPE_COL].s)}}

StrictlySorted(q) == \A i, j \in DOMAIN q : i < j => StrLess(q[i], q[j])

\* The employees the rollup counts, over all rows of one organization.
RollupCount(vendor) ==
    SumSeq([i \in DOMAIN summary.vendor_summary |->
               IF summary.vendor_summary[i].Vendor = vendor
               THEN summary.vendor_summary[i].count ELSE 0])

\* C8: a label matches when it equals an entry of the ignore list after
\* trimming and ignoring case.  An id of the directory with a matching row
\* has one project_flagged record that lists the matched labels as written,
\* without duplicates and sorted, is not in employees, and adds nothing to the
\* rollup of its organization; an id of the directory with no matching row is
\* in employees and not in project_flagged.
C8_LabelMatching ==
    Returned =>
        \A id \in {x \in RawIdSet : InDirectory(x)} :
            IF MatchedLabels(id) # {}
            THEN /\ Len(RecordsOf(project_flagged, id)) = 1
                 /\ SeqToSet(RecordsOf(project_flagged, id)[1].IgnoredProjectTypes)
                       = MatchedLabels(id)
                 /\ StrictlySorted(RecordsOf(project_flagged, id)[1].IgnoredProjectTypes)
                 /\ id \notin IdsOf(employees)
                 /\ pc = "done" =>
                       /\ id \notin IdsOf(employees_for_summary)
                       /\ id \notin IdsOf(summary.exported)
                       /\ RollupCount(RecordsOf(project_flagged, id)[1].Vendor)
                             = Len(SummaryEmployeesOf(RecordsOf(project_flagged, id)[1].Vendor))
            ELSE /\ id \notin IdsOf(project_flagged)
                 /\ id \in IdsOf(employees)

\* C8 witness: the scenario in which E200 has a row "On Bench" and the ignore
\* list is "on bench" has finished with E200 flagged for ["On Bench"] and no
\* rollup row for Acme.
C8_Witness ==
    /\ pc = "done"
    /\ full_file = ScenarioTableFlagged
    /\ ignore_list = <<sOnBenchLower>>
    /\ project_flagged # <<>>
    /\ project_flagged[1].Emp_ID = sE200
    /\ project_flagged[1].IgnoredProjectTypes = <<sOnBench>>
    /\ sE200 \notin IdsOf(employees)
    /\ RollupCount(Str(sAcme)) = 0
    /\ summary.vendor_summary # <<>>

\* A flagged record that lists two spellings, the upper-case one first.
C8_WitnessTwoLabels ==
    /\ Returned
    /\ \E i \in DOMAIN project_flagged :
          project_flagged[i].IgnoredProjectTypes = <<sOnBench, sOnBenchLower>>

\* Nothing of a partition or of a summary exists in the run.
NothingComputed ==
    /\ employees = <<>>
    /\ ignored = <<>>
    /\ unassigned = <<>>
    /\ project_flagged = <<>>
    /\ unique_emp_ids = <<>>
    /\ successful_employees = <<>>
    /\ failed = <<>>
    /\ employees_for_summary = <<>>
    /\ summary = NoSummary

\* The required directory columns the directory lacks.
AbsentDbColumns == {DB_EMP_ID_COL, DB_VENDOR_COL} \ ColSet(db_df)

\* C9: when the directory lacks its id column or its organization column the
\* call raises a ValueError that names exactly the absent required columns
\* and lists the columns of the directory, and no collection is returned.
C9_DbSchemaError ==
    (AbsentDbColumns # {} /\ pc # "start") =>
        /\ pc \in {"error", "second"}
        /\ error.type = "ValueError"
        /\ SeqToSet(error.missing) = AbsentDbColumns
        /\ error.found = db_df.columns
        /\ NothingComputed
        /\ pc = "second" => second.prep.raised /\ second.prep.error = error

\* C9 witness: the run has ended on the error of a directory that lacks both
\* required columns.
C9_Witness ==
    /\ pc = "error"
    /\ AbsentDbColumns = {DB_EMP_ID_COL, DB_VENDOR_COL}
    /\ Len(error.missing) = 2

\* C10: when the raw table lacks its id column or its name column the call
\* raises a ValueError, the run ends on it, and no collection, export or
\* summary is produced.
C10_FullSchemaError ==
    ((~HasCol(full_file, FULL_EMP_ID_COL) \/ ~HasCol(full_file, FULL_EMP_NAME_COL))
        /\ pc # "start") =>
        /\ pc \in {"error", "second"}
        /\ error.type = "ValueError"
        /\ AbsentDbColumns = {} => error = FullSchemaError
        /\ NothingComputed
        /\ pc = "second" => second.prep.raised /\ second.summary = NoSummary

\* C10 witness: the run has ended on the error of a raw table without its
\* name column, the directory being complete.
C10_Witness ==
    /\ pc = "error"
    /\ HasCol(full_file, FULL_EMP_ID_COL)
    /\ ~HasCol(full_file, FULL_EMP_NAME_COL)
    /\ AbsentDbColumns = {}
    /\ error = FullSchemaError

\* C11: when the directory has its two required columns and the raw table
\* its two, the call returns and raises nothing, whatever ids the directory
\* lacks, whatever text stands in the hours and date cells and whichever
\* optional columns are absent; every id of the raw rows is in employees,
\* ignored or project_flagged; without the project type column nothing is
\* in project_flagged; without the hours column every total is 0.
C11_AnomaliesAbsorbed ==
    (/\ pc # "start"
     /\ AbsentDbColumns = {}
     /\ HasCol(full_file, FULL_EMP_ID_COL)
     /\ HasCol(full_file, FULL_EMP_NAME_COL)) =>
        /\ Returned
        /\ error = NoError
        /\ pc = "second" => ~second.prep.raised
        /\ IdsOf(employees) \cup IdsOf(ignored) \cup IdsOf(project_flagged) = RawIdSet
        /\ SeqToSet(unique_emp_ids) = RawIdSet
        /\ ~HasCol(full_file, FULL_PROJECT_TYPE_COL) => project_flagged = <<>>
        /\ ~HasCol(full_file, FULL_HOURS_COL) => \A t \in AllTotals : t[2] = 0
        /\ HasCol(full_df, FULL_HOURS_COL)

\* C11 witness: a call has returned on a table without the hours and the
\* project type column that holds a date that is no date, an id the
\* directory lacks and an id it knows.
C11_Witness ==
    /\ Returned
    /\ full_file.columns = <<FULL_EMP_ID_COL, FULL_EMP_NAME_COL, FULL_DATE_COL>>
    /\ \E i \in DOMAIN full_file.rows : full_file.rows[i][FULL_DATE_COL].k = "str"
    /\ ignored # <<>>
    /\ employees # <<>>
    /\ \A t \in AllTotals : t[2] = 0

\* A call has returned on a table whose hours column holds text that is no
\* number and whose rows carry a label of the ignore list.
C11_WitnessBadHours ==
    /\ Returned
    /\ HasCol(full_file, FULL_HOURS_COL)
    /\ \E i \in DOMAIN full_file.rows : full_file.rows[i][FULL_HOURS_COL] = Str(sAbc)
    /\ project_flagged # <<>>
    /\ unassigned # <<>>

\* What the partition step gives for the inputs of the run.
PartitionOfRun == prepare_employee_data(full_file, db_df, ignore_list)

\* C12: during and after the export loop, whatever exports have failed, the
\* four collections are those the partition step produced; the ignored and
\* project_flagged tables and counts of the summary are those of the
\* partition step.
C12_ExportFrame ==
    pc \in {"export", "done"} =>
        /\ employees = PartitionOfRun.employees
        /\ ignored = PartitionOfRun.ignored
        /\ unassigned = PartitionOfRun.unassigned
        /\ project_flagged = PartitionOfRun.project_flagged
        /\ pc = "done" =>
              /\ summary.ignored = IgnoredRows(PartitionOfRun.ignored)
              /\ summary.project_flagged = ProjRows(PartitionOfRun.project_flagged)
              /\ summary.summary_stats.ignored_emps = Len(PartitionOfRun.ignored)
              /\ summary.summary_stats.project_flagged_emps =
                    Cardinality(IdsOf(PartitionOfRun.project_flagged))

\* C12 witness: a run has ended with a failed export, a successful one, an
\* ignored id and a flagged id.
C12_Witness ==
    /\ pc = "done"
    /\ failed # <<>>
    /\ successful_employees # <<>>
    /\ summary.ignored # <<>>
    /\ summary.project_flagged # <<>>

\* The employees the export loop has been through.
Attempted == SubSeq(employees, 1, ExportIdx - 1)

\* The (id, organization) keys of a list of records.
KeysOf(records) == {<<records[i].Emp_ID, records[i].Vendor>> : i \in DOMAIN records}

\* C13: the export loop goes through employees once in list order.  At any
\* point of it the successful list and the failed list are, in list order,
\* the employees attempted so far, each in exactly one of the two, a failed
\* marker carrying the id and the organization of its employee; when the
\* loop has ended every employee is in exactly one of the two lists and the
\* failed count is the number of failed markers.
C13_ExportedOnce ==
    pc \in {"export", "done"} =>
        /\ ExportIdx <= Len(employees) + 1
        /\ Disjoint(KeysOf(successful_employees), KeysOf(failed))
        /\ Disjoint(IdsOf(successful_employees), IdsOf(failed))
        /\ successful_employees =
              ExportedRows(SelectSeq(Attempted,
                  LAMBDA e : e.Emp_ID \in IdsOf(successful_employees)))
        /\ [i \in DOMAIN failed |-> <<failed[i].Emp_ID, failed[i].Vendor>>] =
              [i \in DOMAIN failed |->
                  LET fl == SelectSeq(Attempted, LAMBDA e : e.Emp_ID \in IdsOf(failed))
                  IN  <<fl[i].Emp_ID, fl[i].Vendor>>]
        /\ Len(SelectSeq(Attempted, LAMBDA e : e.Emp_ID \in IdsOf(failed))) = Len(failed)
        /\ IdsOf(successful_employees) \cup IdsOf(failed) = IdsOf(Attempted)
        /\ pc = "done" =>
              /\ Attempted = employees
              /\ Len(successful_employees) + Len(failed) = Len(employees)
              /\ summary.summary_stats.failed_emps = Len(failed)
              /\ Len(summary.failed) = Len(failed)

\* C13 witness: a loop over two employees has ended with the first failed
\* and the second exported.
C13_Witness ==
    /\ pc = "done"
    /\ Len(employees) = 2
    /\ IdsOf(failed) = {employees[1].Emp_ID}
    /\ IdsOf(successful_employees) = {employees[2].Emp_ID}
    /\ summary.summary_stats.failed_emps = 1

\* The counts C14 states for the collections given to the aggregator.
CountsAre(st, emps, ign, fl, unas, pf) ==
    /\ st.total_emps = Cardinality(RawIdSet)
    /\ st.exported_emps = Cardinality(IdsOf(emps))
    /\ st.ignored_emps = Len(ign)
    /\ st.unassigned_emps = Cardinality(IdsOf(unas))
    /\ st.project_flagged_emps = Cardinality(IdsOf(pf))
    /\ st.failed_emps = Len(fl)

\* C14: the counts of build_summary_structures are: total, the number of
\* distinct trimmed ids of the raw rows; exported, the distinct ids of the
\* employees it was given; ignored, the length of the ignored list;
\* default-assigned, the distinct ids of the unassigned list it was given;
\* project-flagged, the distinct ids of project_flagged; failed, the number
\* of failure records the caller passed.  This holds for the call of
\* run_main_page after the export loop and for a call on all that
\* prepare_employee_data returned, with no failure record.
C14_RunCounts ==
    /\ pc = "done" =>
          CountsAre(summary.summary_stats, employees_for_summary, ignored, failed,
                    FilterBySuccess(unassigned, successful_employees), project_flagged)
    /\ (pc = "second" /\ ~second.prep.raised) =>
          CountsAre(second.summary.summary_stats, second.prep.employees,
                    second.prep.ignored, <<>>, second.prep.unassigned,
                    second.prep.project_flagged)

\* C14 witness: a run has ended with five different counts at work: four
\* ids, one exported, one failed, one ignored and one flagged.
C14_Witness ==
    /\ pc = "done"
    /\ summary.summary_stats.total_emps = 4
    /\ summary.summary_stats.exported_emps = 1
    /\ summary.summary_stats.failed_emps = 1
    /\ summary.summary_stats.ignored_emps = 1
    /\ summary.summary_stats.project_flagged_emps = 1

\* A run has ended on a table whose two rows write one id in two ways.
C14_WitnessPadded ==
    /\ pc = "done"
    /\ Len(full_file.rows) = 2
    /\ full_file.rows[1][FULL_EMP_ID_COL] # full_file.rows[2][FULL_EMP_ID_COL]
    /\ summary.summary_stats.total_emps = 1
    /\ summary.summary_stats.exported_emps = 1

\* The employees of the partition whose export succeeded, in list order.
Succeeded == SelectSeq(employees, LAMBDA e : e.Emp_ID \in IdsOf(successful_employees))

\* Those of them that belong to an organization.
SucceededOf(vendor) == SelectSeq(Succeeded, LAMBDA e : e.Vendor = vendor)

\* The staff summaries written for an organization.
StaffOf(vendor) == SelectSeq(vendor_staff, LAMBDA t : t.Vendor = vendor)

\* The rollup rows of an organization.
RollupOf(vendor) == SelectSeq(summary.vendor_summary, LAMBDA r : r.Vendor = vendor)

\* C15: after the export loop the exported table lists exactly the employees
\* of the partition whose export succeeded; every organization with such an
\* employee has one rollup row, counting them and summing their hours, and
\* one staff summary that lists them; an organization all of whose employees
\* failed has neither, and a failed employee is in no table, count or sum.
C15_FilteredAggregates ==
    pc = "done" =>
        /\ employees_for_summary = Succeeded
        /\ summary.exported = ExportedRows(Succeeded)
        /\ IdsOf(summary.exported) = IdsOf(employees) \ IdsOf(failed)
        /\ \A v \in {employees[i].Vendor : i \in DOMAIN employees} :
              IF SucceededOf(v) = <<>>
              THEN RollupOf(v) = <<>> /\ StaffOf(v) = <<>>
              ELSE /\ Len(RollupOf(v)) = 1
                   /\ RollupOf(v)[1].count = Len(SucceededOf(v))
                   /\ RollupOf(v)[1].hours =
                         SumSeq([k \in DOMAIN SucceededOf(v) |-> SucceededOf(v)[k].Total_Hours])
                   /\ Len(StaffOf(v)) = 1
                   /\ StaffOf(v)[1].rows =
                         [k \in DOMAIN SucceededOf(v) |->
                             [Emp_ID |-> SucceededOf(v)[k].Emp_ID,
                              Employee_Name |-> SucceededOf(v)[k].Employee_Name,
                              Total_Hours |-> SucceededOf(v)[k].Total_Hours]]
                   /\ StaffOf(v)[1].emp_count = Len(SucceededOf(v))
                   /\ StaffOf(v)[1].total_hours = RollupOf(v)[1].hours
        /\ {summary.vendor_summary[i].Vendor : i \in DOMAIN summary.vendor_summary}
              = {Succeeded[i].Vendor : i \in DOMAIN Succeeded}
        /\ {vendor_staff[i].Vendor : i \in DOMAIN vendor_staff}
              = {Succeeded[i].Vendor : i \in DOMAIN Succeeded}
        /\ \A k \in DOMAIN failed :
              /\ failed[k].Emp_ID \notin IdsOf(summary.exported)
              /\ \A i \in DOMAIN vendor_staff :
                    failed[k].Emp_ID \notin IdsOf(vendor_staff[i].rows)

\* C15 witness: a run has ended in which one organization lost one of its
\* two employees to a failed export and keeps a row for the other, and
\* another run's organization lost its only employee and has no row.
C15_Witness ==
    /\ pc = "done"
    /\ Len(employees) = 2
    /\ employees[1].Vendor = employees[2].Vendor
    /\ Len(failed) = 1
    /\ Len(summary.vendor_summary) = 1
    /\ summary.vendor_summary[1].count = 1
    /\ Len(vendor_staff) = 1
    /\ Len(vendor_staff[1].rows) = 1

\* A run has ended in which an organization lost its only employee and has
\* no rollup row and no staff summary, while another organization has both.
C15_WitnessNoRow ==
    /\ pc = "done"
    /\ Len(employees) = 2
    /\ employees[1].Vendor # employees[2].Vendor
    /\ Len(failed) = 1
    /\ Len(summary.vendor_summary) = 1
    /\ Len(vendor_staff) = 1
    /\ vendor_staff[1].Vendor # failed[1].Vendor

\* C16: an id absent from the directory that starts with the default prefix
\* and has, in the normalized table, no row whose label is in the ignore
\* list has one record in employees, with the default organization,
\* IsUnassigned set and no flagged label; every record of employees whose
\* id is in the directory has IsUnassigned unset and no flagged label.
C16_DefaultAssignedRecord ==
    Returned =>
        /\ \A id \in DefaultIds :
              MatchedLabels(id) = {} =>
                  /\ Len(RecordsOf(employees, id)) = 1
                  /\ RecordsOf(employees, id)[1].Vendor = Str(DEFAULT_VENDOR_NAME)
                  /\ RecordsOf(employees, id)[1].IsUnassigned
                  /\ ~RecordsOf(employees, id)[1].HasIgnoredProjectType
                  /\ RecordsOf(employees, id)[1].IgnoredProjectTypes = <<>>
        /\ \A i \in DOMAIN employees :
              InDirectory(employees[i].Emp_ID) =>
                  /\ ~employees[i].IsUnassigned
                  /\ ~employees[i].HasIgnoredProjectType
                  /\ employees[i].IgnoredProjectTypes = <<>>

\* C16 witness: with a label in the ignore list, a call has returned a
\* default-assigned employee whose rows carry another label next to an
\* employee of the directory.
C16_Witness ==
    /\ Returned
    /\ ignore_list # <<>>
    /\ \E i, j \in DOMAIN employees :
          /\ employees[i].Emp_ID \in DefaultIds
          /\ employees[i].IsUnassigned
          /\ \E r \in RowsOfId(employees[i].Emp_ID) :
                full_df.rows[r][FULL_PROJECT_TYPE_COL] = Str(sDev)
          /\ InDirectory(employees[j].Emp_ID)
          /\ ~employees[j].IsUnassigned

\* The organization cell of the last directory row that carries the id.
DirectoryVendor(id) ==
    db_df.rows[MaxOf({j \in 1..Len(db_df.rows) :
                         Strip(PyStr(db_df.rows[j][DB_EMP_ID_COL])) = id})][DB_VENDOR_COL]

\* C17: an id of the raw rows that the directory carries is never in
\* unassigned nor in ignored; it has one record, in employees or in
\* project_flagged, whose organization is the directory's; in employees its
\* IsUnassigned is unset.  This holds for ids that start with the default
\* prefix as for the others.
C17_DirectoryPrecedence ==
    Returned =>
        \A id \in {x \in RawIdSet : InDirectory(x)} :
            /\ id \notin IdsOf(unassigned)
            /\ id \notin IdsOf(ignored)
            /\ Len(RecordsOf(employees, id)) + Len(RecordsOf(project_flagged, id)) = 1
            /\ \A r \in SeqToSet(RecordsOf(employees, id)) :
                  r.Vendor = DirectoryVendor(id) /\ ~r.IsUnassigned
            /\ \A r \in SeqToSet(RecordsOf(project_flagged, id)) :
                  r.Vendor = DirectoryVendor(id)

\* C17 witness: a call has returned an id with the default prefix that the
\* directory assigns to an organization: it is in employees under that
\* organization and unassigned is empty.
C17_Witness ==
    /\ Returned
    /\ InDirectory(sP1)
    /\ RecordsOf(employees, sP1) # <<>>
    /\ RecordsOf(employees, sP1)[1].Vendor = Str(sBeta)
    /\ unassigned = <<>>

\* A call has returned a flagged id with the default prefix under the
\* organization of the directory.
C17_WitnessFlagged ==
    /\ Returned
    /\ InDirectory(sP1)
    /\ RecordsOf(project_flagged, sP1) # <<>>
    /\ RecordsOf(project_flagged, sP1)[1].Vendor = Str(sBeta)
    /\ unassigned = <<>>

\* The directory rows that carry an id: the id cell holds text that is not
\* blank and trims to the id.
RowsWithId(id) ==
    {j \in 1..Len(db_df.rows) :
        /\ db_df.rows[j][DB_EMP_ID_COL].k = "str"
        /\ Strip(db_df.rows[j][DB_EMP_ID_COL].s) = id
        /\ id # <<>>}

\* The id was resolved through the directory: it has a record with an
\* organization that no default assignment gave it.
ResolvedByDirectory(id) ==
    /\ id \notin IdsOf(ignored)
    /\ id \notin IdsOf(unassigned)
    /\ id \in IdsOf(employees) \cup IdsOf(project_flagged)

\* The organization the run gave the id.
VendorGiven(id) ==
    (RecordsOf(employees, id) \o RecordsOf(project_flagged, id))[1].Vendor

\* C18: an id of the raw rows resolves through the directory exactly when a
\* directory row carries it in an id cell that is neither missing nor blank,
\* and its organization is then that of the last such row.
C18_DirectoryIndex ==
    Returned =>
        \A id \in RawIdSet :
            /\ ResolvedByDirectory(id) <=> RowsWithId(id) # {}
            /\ RowsWithId(id) # {} =>
                  VendorGiven(id) = db_df.rows[MaxOf(RowsWithId(id))][DB_VENDOR_COL]

\* The rows that write to the index as the code builds it: a missing id cell
\* prints as "nan" and is kept under that key.
RowsIndexed(id) ==
    {j \in 1..Len(db_df.rows) :
        Strip(PyStr(db_df.rows[j][DB_EMP_ID_COL])) = id /\ id # <<>>}

\* What holds of the index: the same with a missing id cell read as the id
\* "nan".
C18_IndexAsBuilt ==
    Returned =>
        \A id \in RawIdSet :
            /\ ResolvedByDirectory(id) <=> RowsIndexed(id) # {}
            /\ RowsIndexed(id) # {} =>
                  VendorGiven(id) = db_df.rows[MaxOf(RowsIndexed(id))][DB_VENDOR_COL]

\* Two directory rows carry one id, written in two ways, under two
\* organizations, and the id got the second; a blank id of the raw rows is
\* ignored although a directory row is blank too.
C18_WitnessLastWins ==
    /\ Returned
    /\ Len(db_df.rows) = 2
    /\ db_df.rows[1][DB_EMP_ID_COL] # db_df.rows[2][DB_EMP_ID_COL]
    /\ RowsWithId(sE2) = {1, 2}
    /\ db_df.rows[1][DB_VENDOR_COL] # db_df.rows[2][DB_VENDOR_COL]
    /\ sE2 \in IdsOf(employees)
    /\ VendorGiven(sE2) = db_df.rows[2][DB_VENDOR_COL]

\* A blank id of the raw rows is ignored although a directory row has a
\* blank id.
C18_WitnessBlank ==
    /\ Returned
    /\ \E j \in 1..Len(db_df.rows) : db_df.rows[j][DB_EMP_ID_COL] = Str(sBlank)
    /\ <<>> \in IdsOf(ignored)

\* Every record prepare_employee_data returned, cut to its id and name.
AllNames ==
    {<<r.Emp_ID, r.Employee_Name>> :
        r \in SeqToSet(employees) \cup SeqToSet(ignored) \cup SeqToSet(unassigned)
                 \cup SeqToSet(project_flagged)}

\* The first name written in the uploaded table on a row of the id, in row
\* order; the empty string when no row of the id has a name written.
OwnFirstName(id) ==
    LET named == {i \in RowsOfId(id) :
                     /\ full_file.rows[i][FULL_EMP_NAME_COL].k = "str"
                     /\ Strip(full_file.rows[i][FULL_EMP_NAME_COL].s) # <<>>}
    IN  IF named = {} THEN <<>> ELSE full_file.rows[MinOf(named)][FULL_EMP_NAME_COL].s

\* C19: the name of every record is the first name written on the id's own
\* rows, in row order, and the empty string when none of them has a name.
C19_DisplayName ==
    Returned =>
        \A t \in AllNames : t[2] = OwnFirstName(t[1])

\* What holds of the name: it is the first name among the id's rows once
\* missing name cells have taken the name of the row above, whichever id
\* that row belongs to.
C19_NameAfterFill ==
    Returned =>
        \A t \in AllNames : t[2] = FirstName(t[1])

\* The cell written nearest above row i, or on it, in a column of the
\* uploaded table; a missing cell when there is none.
NearestRaw(c, i) ==
    LET filled == {j \in 1..i : ~IsNa(full_file.rows[j][c])}
    IN  IF filled = {} THEN NaN ELSE full_file.rows[MaxOf(filled)][c]

\* The columns of the uploaded table that hold text, the hours and the date
\* column apart, which are coerced after the fill.
TextColumns ==
    {c \in ColSet(full_file) \ {FULL_HOURS_COL, FULL_DATE_COL} :
        \E i \in 1..Len(full_file.rows) : full_file.rows[i][c].k = "str"}

\* The rows whose nearest written id, on the row or above it, trims to id.
Attributed(id) ==
    {i \in 1..Len(full_file.rows) :
        /\ NearestRaw(FULL_EMP_ID_COL, i).k = "str"
        /\ Strip(NearestRaw(FULL_EMP_ID_COL, i).s) = id}

\* C20: once the table is normalized, every cell of a column that holds
\* text (the hours and the date column, which are coerced, apart) is the
\* cell written nearest above it or on it in that column, so a
\* written cell is unchanged and a missing cell with nothing written above
\* it stays missing; the rows given to an id are those whose nearest written
\* id is that id.
C20_FillForward ==
    pc # "start" =>
        /\ Len(full_df.rows) = Len(full_file.rows)
        /\ \A c \in TextColumns : \A i \in 1..Len(full_file.rows) :
              full_df.rows[i][c] = NearestRaw(c, i)
        /\ Returned =>
              /\ \A id \in RawIdSet : RowsOfId(id) = Attributed(id)
              /\ \A r \in SeqToSet(employees) :
                    /\ Len(r.df) = Cardinality(Attributed(r.Emp_ID))
                    /\ \A k \in DOMAIN r.df : Strip(PyStr(r.df[k][FULL_EMP_ID_COL])) = r.Emp_ID
                    /\ r.Total_Hours = SumOfRows(Attributed(r.Emp_ID))

\* C20 witness: a call has returned on a table of three rows whose id is
\* written on the first only: the third row has taken it and the employee
\* has three rows.
C20_Witness ==
    /\ Returned
    /\ Len(full_file.rows) = 3
    /\ ~IsNa(full_file.rows[1][FULL_EMP_ID_COL])
    /\ IsNa(full_file.rows[2][FULL_EMP_ID_COL])
    /\ IsNa(full_file.rows[3][FULL_EMP_ID_COL])
    /\ full_df.rows[3][FULL_EMP_ID_COL] = full_file.rows[1][FULL_EMP_ID_COL]
    /\ Len(employees) = 1
    /\ Len(employees[1].df) = 3

\* A call has returned on a table whose first row has no id while the
\* second has: the first row stays without and belongs to no employee.
C20_WitnessLeading ==
    /\ Returned
    /\ Len(full_file.rows) = 2
    /\ IsNa(full_file.rows[1][FULL_EMP_ID_COL])
    /\ ~IsNa(full_file.rows[2][FULL_EMP_ID_COL])
    /\ IsNa(full_df.rows[1][FULL_EMP_ID_COL])
    /\ Len(employees) = 1
    /\ Len(employees[1].df) = 1

\* The ids of a list of records, in list order.
IdSeq(records) == [i \in DOMAIN records |-> records[i].Emp_ID]

\* The place of the first employee of an organization in a list.
FirstPlace(emps, vendor) == MinOf({i \in DOMAIN emps : emps[i].Vendor = vendor})

\* The rollup rows list each organization of the employees once, in the
\* order in which the list of employees first names it.
FirstSeenOrder(rows, emps) ==
    /\ {rows[i].Vendor : i \in DOMAIN rows} = {emps[i].Vendor : i \in DOMAIN emps}
    /\ \A i, j \in DOMAIN rows :
          i < j => FirstPlace(emps, rows[i].Vendor) < FirstPlace(emps, rows[j].Vendor)

\* C21: unique_emp_ids and the ids of employees, ignored, unassigned and
\* project_flagged are each in strictly ascending string order; the rollup
\* lists the organizations in the order in which the employees it was given
\* first name them.
C21_OutputOrder ==
    /\ Returned =>
          /\ StrictlySorted(unique_emp_ids)
          /\ StrictlySorted(IdSeq(employees))
          /\ StrictlySorted(IdSeq(ignored))
          /\ StrictlySorted(IdSeq(unassigned))
          /\ StrictlySorted(IdSeq(project_flagged))
    /\ pc = "done" => FirstSeenOrder(summary.vendor_summary, employees_for_summary)
    /\ (pc = "second" /\ ~second.prep.raised) =>
          FirstSeenOrder(second.summary.vendor_summary, second.prep.employees)

\* C21 witness: a run has ended on a table that writes P1 above E2; the ids
\* come out E2, P1 and the rollup names Beta, the organization of E2, before
\* Acme.
C21_Witness ==
    /\ pc = "done"
    /\ Len(full_file.rows) = 2
    /\ full_file.rows[1][FULL_EMP_ID_COL] = Str(sP1)
    /\ full_file.rows[2][FULL_EMP_ID_COL] = Str(sE2)
    /\ unique_emp_ids = <<sE2, sP1>>
    /\ Len(summary.vendor_summary) = 2
    /\ summary.vendor_summary[1].Vendor = Str(sBeta)
    /\ summary.vendor_summary[2].Vendor = Str(sAcme)

\* C22: every id of unassigned has either one record in employees, with
\* IsUnassigned set, and none in project_flagged, or one record in
\* project_flagged and none in employees; an employee with IsUnassigned set
\* is in unassigned; the ids of employees, ignored and project_flagged are
\* pairwise disjoint and are together the ids of the raw rows.
C22_UnassignedOverlap ==
    Returned =>
        /\ \A id \in IdsOf(unassigned) :
              /\ Len(RecordsOf(unassigned, id)) = 1
              /\ \/ /\ Len(RecordsOf(employees, id)) = 1
                    /\ RecordsOf(employees, id)[1].IsUnassigned
                    /\ RecordsOf(project_flagged, id) = <<>>
                 \/ /\ RecordsOf(employees, id) = <<>>
                    /\ Len(RecordsOf(project_flagged, id)) = 1
        /\ \A i \in DOMAIN employees :
              employees[i].IsUnassigned <=> employees[i].Emp_ID \in IdsOf(unassigned)
        /\ Disjoint(IdsOf(employees), IdsOf(ignored))
        /\ Disjoint(IdsOf(employees), IdsOf(project_flagged))
        /\ Disjoint(IdsOf(ignored), IdsOf(project_flagged))
        /\ IdsOf(employees) \cup IdsOf(ignored) \cup IdsOf(project_flagged)
              = SeqToSet(unique_emp_ids)
        /\ SeqToSet(unique_emp_ids) = RawIdSet

\* C22 witness: a call has returned a default-assigned id that is flagged,
\* so it is in unassigned and in project_flagged, next to an employee.
C22_Witness ==
    /\ Returned
    /\ IdsOf(unassigned) \cap IdsOf(project_flagged) # {}
    /\ employees # <<>>

\* A call has returned a default-assigned id that is exported.
C22_WitnessExported ==
    /\ Returned
    /\ \E i \in DOMAIN employees : employees[i].IsUnassigned
    /\ project_flagged # <<>>

\* C23: in a completed run the total of distinct ids is the sum of the
\* exported, failed, ignored and project-flagged counts; the default-assigned
\* count is no term of the sum, its ids being among the exported.
C23_CountsAddUp ==
    pc = "done" =>
        /\ summary.summary_stats.total_emps =
              summary.summary_stats.exported_emps + summary.summary_stats.failed_emps
              + summary.summary_stats.ignored_emps
              + summary.summary_stats.project_flagged_emps
        /\ summary.summary_stats.unassigned_emps <= summary.summary_stats.exported_emps
        /\ IdsOf(summary.unassigned) \subseteq IdsOf(summary.exported)

\* C23 witness: a run has ended with one id exported under the default
\* organization, one failed, one ignored and one flagged: the total is 4
\* and the default-assigned count is 1.
C23_Witness ==
    /\ pc = "done"
    /\ summary.summary_stats.total_emps = 4
    /\ summary.summary_stats.unassigned_emps = 1
    /\ summary.summary_stats.exported_emps = 1
    /\ summary.summary_stats.failed_emps = 1
    /\ summary.summary_stats.ignored_emps = 1
    /\ summary.summary_stats.project_flagged_emps = 1

\* The records of unassigned whose id was exported with success.
UnassignedExported ==
    SelectSeq(unassigned, LAMBDA u : u.Emp_ID \in IdsOf(successful_employees))

\* C24: the default-assigned table and count of the summary hold exactly
\* the ids of unassigned whose export succeeded; an id of unassigned that
\* was flagged or whose export failed is in neither, so the count is at most
\* the length of unassigned and can be less.
C24_DefaultAssignedCount ==
    pc = "done" =>
        /\ summary.unassigned = UnassignedRows(UnassignedExported)
        /\ summary.summary_stats.unassigned_emps = Len(UnassignedExported)
        /\ summary.summary_stats.unassigned_emps <= Len(unassigned)
        /\ \A id \in IdsOf(unassigned) :
              (id \in IdsOf(project_flagged) \/ id \in IdsOf(failed)) =>
                  id \notin IdsOf(summary.unassigned)
        /\ \A id \in IdsOf(unassigned) :
              id \in IdsOf(summary.unassigned)
                  \/ id \in IdsOf(project_flagged) \/ id \in IdsOf(failed)

\* C24 witness: a run has ended in which the export of the one
\* default-assigned id failed while another export succeeded: unassigned has
\* one record and the summary counts none.
C24_Witness ==
    /\ pc = "done"
    /\ Len(unassigned) = 1
    /\ unassigned[1].Emp_ID \in IdsOf(failed)
    /\ successful_employees # <<>>
    /\ summary.summary_stats.unassigned_emps = 0
    /\ summary.unassigned = <<>>

\* A run has ended in which the one default-assigned id was flagged and an
\* export succeeded: the summary counts no default-assigned id.
C24_WitnessFlagged ==
    /\ pc = "done"
    /\ Len(unassigned) = 1
    /\ unassigned[1].Emp_ID \in IdsOf(project_flagged)
    /\ successful_employees # <<>>
    /\ summary.summary_stats.unassigned_emps = 0

\* A run has ended in which the default-assigned id was exported and is
\* counted.
C24_WitnessCounted ==
    /\ pc = "done"
    /\ Len(unassigned) = 1
    /\ summary.summary_stats.unassigned_emps = 1
    /\ failed # <<>>

\* C25: when prepare_employee_data raised, the run has ended with the
\* exception shown and without any output side effect: the output folder was
\* neither removed nor created, nothing was written to the folder or the
\* zip, no export was attempted and no summary was built.
C25_PartitionBeforeOutput ==
    pc = "error" =>
        /\ error # NoError
        /\ ~deleted
        /\ ~created
        /\ written = {}
        /\ successful_employees = <<>>
        /\ failed = <<>>
        /\ summary = NoSummary
        /\ vendor_staff = <<>>
        /\ ~ENABLED (ClearFolder \/ ClearFolderFails \/ ExportSucceeds \/ ExportFails
                       \/ Summarise)

\* C25 witness: a run in folder mode on a folder that holds something, with
\* the clearing confirmed, has ended on a schema error and the folder still
\* holds what it held.
C25_Witness ==
    /\ pc = "error"
    /\ error # NoError
    /\ output_mode = "folder"
    /\ confirm_clear
    /\ disk = "non-empty"
    /\ ~deleted

\* A step that ends the run on the exception of prepare_employee_data leaves
\* the folder on disk as it was.
C25_FolderUntouched == [][pc' = "error" => disk' = disk]_vars

C26_WitnessDisabled ==
    /\ pc = "start"
    /\ output_mode = "folder"
    /\ FolderNotEmpty
    /\ ~confirm_clear
    /\ DisableStart

\* A run in folder mode without the checkbox ended on a folder that was
\* absent or empty, with nothing removed.
C26_WitnessNothingToClear ==
    /\ pc = "done"
    /\ output_mode = "folder"
    /\ ~confirm_clear
    /\ created
    /\ ~deleted

\* In zip mode no step changes the folder on disk.
C26_ZipLeavesFolder == [][output_mode = "zip" => disk' = disk]_vars

\* Row i takes, written on it or carried down from the nearest written cell
\* above it, a label of the ignore list.
CarriesLabel(i) ==
    /\ HasCol(full_file, FULL_PROJECT_TYPE_COL)
    /\ NearestRaw(FULL_PROJECT_TYPE_COL, i).k = "str"
    /\ InIgnoreList(NearestRaw(FULL_PROJECT_TYPE_COL, i).s)

\* The first name, in row order, that a row of the id takes, written on it
\* or carried down from the nearest written cell above it; the empty string
\* when no row of the id takes one.
CarriedName(id) ==
    LET named == {i \in Attributed(id) : ~IsNa(NearestRaw(FULL_EMP_NAME_COL, i))}
    IN  IF named = {} THEN <<>>
        ELSE PyStr(NearestRaw(FULL_EMP_NAME_COL, MinOf(named)))

\* The id has a row, in the uploaded table, on which a label of the ignore
\* list is written.
OwnLabel(id) == \E i \in Attributed(id) : RowIsFlagged(i)

\* C27: the fill runs down each text column of the whole table and does not
\* stop where the id changes: a row whose label or name cell is missing
\* takes the nearest written cell above it, whatever id that row has.  An id
\* that reaches the label test is in project_flagged exactly when one of its
\* rows takes a label of the ignore list in this way, and the name of every
\* record is the first name a row of its id takes in this way.
C27_FillCrossesIds ==
    (pc # "start" /\ FullColumnsPresent(full_file)) =>
        /\ \A c \in {FULL_EMP_NAME_COL, FULL_PROJECT_TYPE_COL} \cap TextColumns :
              \A i \in 1..Len(full_file.rows) :
                  full_df.rows[i][c] = NearestRaw(c, i)
        /\ Returned =>
              /\ \A id \in {x \in RawIdSet : InDirectory(x) \/ StartsWith(x, "P")} :
                    id \in IdsOf(project_flagged)
                        <=> \E i \in Attributed(id) : CarriesLabel(i)
              /\ \A t \in AllNames : t[2] = CarriedName(t[1])

\* C27 witness: a call has returned with an id in project_flagged none of
\* whose own rows has a label of the ignore list written on it, and with a
\* record whose name is written on none of its id's own rows.
C27_Witness ==
    /\ Returned
    /\ \E id \in IdsOf(project_flagged) : ~OwnLabel(id)
    /\ \E t \in AllNames : t[2] # <<>> /\ OwnFirstName(t[1]) = <<>>

\* One id has both: flagged by a label and named by a name that only the
\* rows of another id carry.
C27_WitnessBoth ==
    /\ Returned
    /\ \E r \in SeqToSet(project_flagged) :
          /\ ~OwnLabel(r.Emp_ID)
          /\ r.Employee_Name # <<>>
          /\ OwnFirstName(r.Emp_ID) = <<>>

====
